---- MODULE Spec2Model ----
(***************************************************************************)
(* Model of the Infrared compiler core: interpreter substrate (core.c),    *)
(* MIDI assembler (midi.c), renderer (render.c), graph engine (graph.c),   *)
(* set algebra (set.c) and articulations (art.c).                          *)
(*                                                                         *)
(* Every module of the program keeps process-wide state and reports every  *)
(* error through raiseErr(), which aborts the process.  A module's error   *)
(* variable is "none" while the process runs and holds the error class     *)
(* once the process has aborted; every action is guarded by it.            *)
(***************************************************************************)
EXTENDS Integers, Sequences, FiniteSets, TLC

(***************************************************************************)
(* Bounds of the model                                                     *)
(***************************************************************************)
MaxStack == 3
MaxGroup == 2
MaxEvents == 3
MaxOrderEvents == 3
MaxSigEvents == 2
MaxArts == 1
MaxSets == 1
MaxGraphs == 2

MaxPipe == 1

MaxNotes == 2

MaxAsmEvents == 3

MaxPipeLen == 3

MaxShutdownCalls == 2

MaxKbEvents == 3

MaxMapLen == 3

MaxCtlNotes == 2

(***************************************************************************)
(* Generic helpers                                                         *)
(***************************************************************************)
Max2(a, b) == IF a >= b THEN a ELSE b

Min2(a, b) == IF a <= b THEN a ELSE b

\* C integer division truncates toward zero
CDiv(a, b) == IF a >= 0 THEN a \div b ELSE -((-a) \div b)

\* C remainder has the sign of the dividend
CMod(a, b) == a - b * CDiv(a, b)

Front(s) == SubSeq(s, 1, Len(s) - 1)

Last(s) == s[Len(s)]

VARIABLES
  m_st,        \* core.c: interpreter stack (m_st[1..m_st_len])
  m_gs,        \* core.c: grouping stack of hidden-element counts
  m_bank,      \* core.c: memory bank, name -> cell or NoCell
  core_err,    \* core.c: "none" or the class of the fatal error raised
  m_compiled,  \* midi.c: 1 once midi_compile has been called
  m_unique,    \* midi.c: last event ID handed out
  m_filled,    \* midi.c: 1 once the event range has been set
  m_lower,     \* midi.c: lower bound of the event range (subquanta)
  m_upper,     \* midi.c: upper bound of the event range (subquanta)
  m_head,      \* midi.c: header buffer, a sequence of selectors
  m_moment,    \* midi.c: moment buffer, a sequence of MOMENT records
  out_file,    \* midi.c: what midi_compile wrote to pOut
  midi_err,    \* midi.c: "none" or the class of the fatal error raised
  range_hist,  \* history: the subquanta of the non-header events added
  control_err, \* control.c: "none" or the class of the fatal error raised
  art_store,   \* art.c: the chain of allocated ART objects
  art_ret,     \* art.c: the last art_transform call and what it returned
  art_err,     \* art.c: "none" or the class of the fatal error raised
  m_state,     \* set.c: 0 no definition open, 1 positive, -1 negative set
  m_acc,       \* set.c: accumulator register m_acc[1..m_acc_len]
  set_chain,   \* set.c: the tables of the set objects built by set_end
  set_err,     \* set.c: "none" or the class of the fatal error raised
  naive_acc,   \* history: the open definition evaluated on plain sets
  naive_chain, \* history: the same for each set object of set_chain
  graph_load,  \* graph.c: m_load, 1 while the accumulator is loaded
  graph_acc,   \* graph.c: accumulator register m_acc[1..m_acc_len]
  graph_acc_t, \* graph.c: m_acc_t, time of the last node entered
  graph_buf,   \* graph.c: m_buf, the buffered region
  graph_chain, \* graph.c: the tables of the graph objects allocated
  graph_err,   \* graph.c: "none" or the class of the fatal error raised
  graph_res,   \* history: the last region resolved and the nodes it gave
  graph_cache, \* graph.c: m_cache[1..m_cache_len], entries [v, pg]
  graph_ret,   \* history: the graph the call just made returned, 0 if none
  m_render,    \* render.c: 1 once render_nmf has been called
  m_pipe,      \* render.c: the classifier pipeline m_pipe[1..m_pipe_len]
  m_buf,       \* render.c: the event buffer importNotes filled
  render_err,  \* render.c: "none" or the class of the fatal error raised
  nmf_pd,      \* history: the notes of the NMF data render_nmf was given
  ptr,         \* pointer.c: the fields of a POINTER object
  pointer_err, \* pointer.c: "none" or the class of the fatal error raised
  ptr_res,     \* history: the function called last on ptr and its result
  codec,       \* history: a moment offset, unpacked and packed again
  m_shutdown,  \* core.c, art.c, pointer.c: the m_shutdown flag of each
  shutdown_calls, \* history: how often each module's shutdown was called
  kb,          \* render.c: keyboard(), where it stands and its i and j
  m_map,       \* control.c: the controller map m_map[1..m_map_len]
  map_hist,    \* history: the graph control_auto was given last for each
               \* controller, and whether a call has named one again
  track_hist   \* history: control_track calls and the range at the last

coreVars == <<m_st, m_gs, m_bank, core_err>>

shutdownVars == <<m_shutdown, shutdown_calls>>

\* every module starts with static int m_shutdown = 0
ShutdownInit ==
  /\ m_shutdown = [core |-> 0, art |-> 0, pointer |-> 0]
  /\ shutdown_calls = [core |-> 0, art |-> 0, pointer |-> 0]

mapVars == <<m_map, map_hist, track_hist>>

midiVars == <<m_compiled, m_unique, m_filled, m_lower, m_upper, m_head,
              m_moment, out_file, midi_err, range_hist>>

(***************************************************************************)
(* core.c : interpreter stack, grouping stack, memory bank                 *)
(***************************************************************************)
Names == {"x", "y"}

Values == {1, 2}

NoCell == [cv |-> 0, is_const |-> 2]

CoreInit ==
  /\ m_st = <<>>
  /\ m_gs = <<>>
  /\ m_bank = [k \in Names |-> NoCell]
  /\ core_err = "none"

\* if (m_shutdown) raiseErr(__LINE__, "Core module is shut down")
CoreShutdownError ==
  /\ core_err' = "Shutdown"
  /\ UNCHANGED <<m_st, m_gs, m_bank>>

\* number of stack elements hidden by the innermost open group
Hidden_outermost == IF Len(m_gs) > 0 THEN m_gs[1] ELSE 0

Hidden == IF Len(m_gs) > 0 THEN m_gs[Len(m_gs)] ELSE 0

core_push(v) ==
  /\ core_err = "none"
  /\ IF m_shutdown.core # 0 THEN CoreShutdownError
     ELSE /\ Len(m_st) < MaxStack
          /\ m_st' = Append(m_st, v)
          /\ UNCHANGED <<m_gs, m_bank, core_err>>

\* core_pop that takes the top element whatever groups are open
core_pop_ungrouped ==
  /\ core_err = "none"
  /\ IF m_shutdown.core # 0 THEN CoreShutdownError
     ELSE IF Len(m_st) <= 0
       THEN /\ core_err' = "StackUnderflow"
            /\ UNCHANGED <<m_st, m_gs, m_bank>>
       ELSE /\ m_st' = Front(m_st)
            /\ UNCHANGED <<m_gs, m_bank, core_err>>

core_pop ==
  /\ core_err = "none"
  /\ IF m_shutdown.core # 0 THEN CoreShutdownError
     ELSE IF Len(m_st) <= Hidden
       THEN /\ core_err' = "StackUnderflow"
            /\ UNCHANGED <<m_st, m_gs, m_bank>>
       ELSE /\ m_st' = Front(m_st)
            /\ UNCHANGED <<m_gs, m_bank, core_err>>

core_begin_group ==
  /\ core_err = "none"
  /\ IF m_shutdown.core # 0 THEN CoreShutdownError
     ELSE /\ Len(m_gs) < MaxGroup
          /\ m_gs' = Append(m_gs, Len(m_st))
          /\ UNCHANGED <<m_st, m_bank, core_err>>

core_end_group_nonEmpty ==
  /\ core_err = "none"
  /\ IF m_shutdown.core # 0 THEN CoreShutdownError
     ELSE IF Len(m_gs) < 1
       THEN /\ core_err' = "GroupConstraint"
            /\ UNCHANGED <<m_st, m_gs, m_bank>>
       ELSE IF Len(m_st) < m_gs[Len(m_gs)] + 1
         THEN /\ core_err' = "GroupConstraint"
              /\ UNCHANGED <<m_st, m_gs, m_bank>>
         ELSE /\ m_gs' = Front(m_gs)
              /\ UNCHANGED <<m_st, m_bank, core_err>>

core_end_group ==
  /\ core_err = "none"
  /\ IF m_shutdown.core # 0 THEN CoreShutdownError
     ELSE IF Len(m_gs) < 1
       THEN /\ core_err' = "GroupConstraint"
            /\ UNCHANGED <<m_st, m_gs, m_bank>>
       ELSE IF Len(m_st) # m_gs[Len(m_gs)] + 1
         THEN /\ core_err' = "GroupConstraint"
              /\ UNCHANGED <<m_st, m_gs, m_bank>>
         ELSE /\ m_gs' = Front(m_gs)
              /\ UNCHANGED <<m_st, m_bank, core_err>>

core_declare_rebind(is_const, pKey) ==
  /\ core_err = "none"
  /\ IF m_shutdown.core # 0 THEN CoreShutdownError
     ELSE IF Len(m_st) <= Hidden
       THEN /\ core_err' = "StackUnderflow"
            /\ UNCHANGED <<m_st, m_gs, m_bank>>
       ELSE /\ m_bank' = [m_bank EXCEPT ![pKey] =
                            [cv |-> Last(m_st), is_const |-> is_const]]
            /\ m_st' = Front(m_st)
            /\ UNCHANGED <<m_gs, core_err>>

core_declare(is_const, pKey) ==
  /\ core_err = "none"
  /\ IF m_shutdown.core # 0 THEN CoreShutdownError
     ELSE IF m_bank[pKey] # NoCell
       THEN /\ core_err' = "Redefinition"
            /\ UNCHANGED <<m_st, m_gs, m_bank>>
       ELSE IF Len(m_st) <= Hidden
         THEN /\ core_err' = "StackUnderflow"
              /\ UNCHANGED <<m_st, m_gs, m_bank>>
         ELSE /\ m_bank' = [m_bank EXCEPT ![pKey] =
                              [cv |-> Last(m_st), is_const |-> is_const]]
              /\ m_st' = Front(m_st)
              /\ UNCHANGED <<m_gs, core_err>>

core_get(pKey) ==
  /\ core_err = "none"
  /\ IF m_shutdown.core # 0 THEN CoreShutdownError
     ELSE IF m_bank[pKey] = NoCell
       THEN /\ core_err' = "Undefined"
            /\ UNCHANGED <<m_st, m_gs, m_bank>>
       ELSE /\ Len(m_st) < MaxStack
            /\ m_st' = Append(m_st, m_bank[pKey].cv)
            /\ UNCHANGED <<m_gs, m_bank, core_err>>

core_assign(pKey) ==
  /\ core_err = "none"
  /\ IF m_shutdown.core # 0 THEN CoreShutdownError
     ELSE IF m_bank[pKey] = NoCell
       THEN /\ core_err' = "Undefined"
            /\ UNCHANGED <<m_st, m_gs, m_bank>>
       ELSE IF m_bank[pKey].is_const = 1
         THEN /\ core_err' = "Const"
              /\ UNCHANGED <<m_st, m_gs, m_bank>>
         ELSE /\ Len(m_st) < MaxStack
              /\ m_st' = Append(m_st, m_bank[pKey].cv)
              /\ UNCHANGED <<m_gs, m_bank, core_err>>

\* core_shutdown that, like the other functions, refuses to run once the
\* module is shut down
core_shutdown_once ==
  /\ core_err = "none"
  /\ shutdown_calls' = [shutdown_calls EXCEPT !.core = @ + 1]
  /\ IF m_shutdown.core # 0
       THEN /\ CoreShutdownError
            /\ UNCHANGED m_shutdown
       ELSE /\ m_shutdown' = [m_shutdown EXCEPT !.core = 1]
            /\ IF Len(m_st) > 0
                 THEN /\ core_err' = "StackNotEmpty"
                      /\ UNCHANGED <<m_st, m_gs, m_bank>>
                 ELSE IF Len(m_gs) > 0
                   THEN /\ core_err' = "OpenGroup"
                        /\ UNCHANGED <<m_st, m_gs, m_bank>>
                   ELSE /\ m_st' = <<>>
                        /\ m_gs' = <<>>
                        /\ m_bank' = [k \in Names |-> NoCell]
                        /\ UNCHANGED core_err

\* core_shutdown: the flag is set before the end state is checked; the
\* stacks and the memory bank are released
core_shutdown ==
  /\ core_err = "none"
  /\ shutdown_calls' = [shutdown_calls EXCEPT !.core = @ + 1]
  /\ IF m_shutdown.core # 0
       THEN UNCHANGED <<coreVars, m_shutdown>>
       ELSE /\ m_shutdown' = [m_shutdown EXCEPT !.core = 1]
            /\ IF Len(m_st) > 0
                 THEN /\ core_err' = "StackNotEmpty"
                      /\ UNCHANGED <<m_st, m_gs, m_bank>>
                 ELSE IF Len(m_gs) > 0
                   THEN /\ core_err' = "OpenGroup"
                        /\ UNCHANGED <<m_st, m_gs, m_bank>>
                   ELSE /\ m_st' = <<>>
                        /\ m_gs' = <<>>
                        /\ m_bank' = [k \in Names |-> NoCell]
                        /\ UNCHANGED core_err

(***************************************************************************)
(* pointer.c : the moment codec                                            *)
(***************************************************************************)
INT32_MAX == 2147483647

INT32_MIN == -2147483647 - 1

\* pointer_unpack with the division of C alone, which rounds toward zero
pointer_unpack_trunc(m) ==
  IF m <= INT32_MIN THEN <<-715827883, 1>>
  ELSE IF m >= 0 THEN <<CDiv(m, 3), CMod(m, 3)>>
  ELSE <<0 - CDiv(0 - m, 3), CMod(0 - m, 3)>>

\* pointer_unpack: <<subquantum, part>> of a moment offset
pointer_unpack_p(m) ==
  IF m >= 0 THEN <<CDiv(m, 3), CMod(m, 3)>>
  ELSE IF m <= INT32_MIN THEN <<-715827883, 1>>
  ELSE LET s == (0 - CDiv(0 - m, 3)) - 1
           p == 3 - CMod(0 - m, 3)
       IN  IF p >= 3 THEN <<s + 1, 0>> ELSE <<s, p>>

\* pointer_unpack(m, NULL): the subquantum alone
pointer_unpack(m) == pointer_unpack_p(m)[1]

\* pointer_pack raises "Overflow while computing moment offset"
pointer_pack_overflows(s, p) ==
  \/ (s = 715827882) /\ (p = 2)
  \/ (s = -715827883) /\ (p = 0)
  \/ s > 715827882
  \/ s < -715827883

\* pointer_pack: the moment offset, when no error is raised
pointer_pack(s, p) ==
  IF (s > -715827883) /\ (s < 715827882) THEN s * 3 + p
  ELSE IF s = 715827882
    THEN (IF p = 0 THEN INT32_MAX - 1 ELSE INT32_MAX)
  ELSE (IF p = 1 THEN INT32_MIN ELSE INT32_MIN + 1)

(***************************************************************************)
(* midi.c : the MIDI assembler                                             *)
(*                                                                         *)
(* A selector is modelled as the record [status, data]: the status byte of *)
(* its 8 high bits, and the bytes of the message buffer that its 24 low    *)
(* bits point at (for 0xF0 and 0xF7 the bytes of the blob the handle       *)
(* names).  A MOMENT is [eid, t, sel].  out_file is [len, trk]: the MTrk   *)
(* length written in the chunk header and, per event written, a record     *)
(* [eid, t, sel, delta, bytes] where delta and bytes are what went to the  *)
(* file and eid, t (the moment the event was added at) identify the event. *)
(***************************************************************************)
MIDI_TIME_NUM_MAX == 255

MIDI_TIME_DENOM_MAX == 1024

MIDI_TIME_METRO_MAX == 255

MIDI_CH_MAX == 16

MIDI_DATA_MAX == 127

MIDI_MSG_NOTE_OFF == 8

MIDI_MSG_NOTE_ON == 9

MIDI_MSG_POLY_AFTERTOUCH == 10

MIDI_MSG_CONTROL == 11

MIDI_MSG_PROGRAM == 12

MIDI_MSG_CH_AFTERTOUCH == 13

MIDI_MSG_PITCH_BEND == 14

MIDI_WIDE_MAX == 16383

NoFile == [len |-> 0, trk |-> <<>>]

MidiInit ==
  /\ m_compiled = 0
  /\ m_unique = 0
  /\ m_filled = 0
  /\ m_lower = 0
  /\ m_upper = 0
  /\ m_head = <<>>
  /\ m_moment = <<>>
  /\ out_file = NoFile
  /\ midi_err = "none"
  /\ range_hist = {}

\* encodeVInt: the bytes of a MIDI variable-length integer
encodeVInt(val) ==
  (IF val >= 2097152 THEN <<((val \div 2097152) % 128) + 128>> ELSE <<>>)
  \o (IF val >= 16384 THEN <<((val \div 16384) % 128) + 128>> ELSE <<>>)
  \o (IF val >= 128 THEN <<((val \div 128) % 128) + 128>> ELSE <<>>)
  \o <<val % 128>>

sizeVInt(val) ==
  IF val >= 2097152 THEN 4
  ELSE IF val >= 16384 THEN 3
  ELSE IF val >= 128 THEN 2
  ELSE 1

\* eventRange: <<m_filled, m_lower, m_upper>> after including moment t
eventRange_packed(t, filled, lower, upper) ==
  IF filled = 1
    THEN (IF t < lower THEN <<1, t, upper>>
          ELSE IF t > upper THEN <<1, lower, t>>
          ELSE <<1, lower, upper>>)
    ELSE <<1, t, t>>

eventRange(t, filled, lower, upper) ==
  LET s == pointer_unpack(t)
  IN  IF filled = 1
        THEN (IF s < lower THEN <<1, s, upper>>
              ELSE IF s > upper THEN <<1, lower, s>>
              ELSE <<1, lower, upper>>)
        ELSE <<1, s, s>>

\* addMsg1: selector of a message with one data byte
addMsg1(status, b) == [status |-> status, data |-> <<b>>]

\* addMsg2: selector of a message with two data bytes
addMsg2(status, b1, b2) == [status |-> status, data |-> <<b1, b2>>]

\* addMsgMD: selector of a meta event with a direct payload
addMsgMD(status, ty, pData) ==
  [status |-> status, data |-> <<ty>> \o encodeVInt(Len(pData)) \o pData]

\* addMsgMB: selector of a meta event whose payload is a blob; the type
\* code is stored with its indirect flag and the handle stands for the bytes
addMsgMB(status, ty, pBlob) == [status |-> status, data |-> <<ty + 128>> \o pBlob]

\* addMsgMT: selector of a meta event whose payload is a text
addMsgMT(status, ty, pText) == [status |-> status, data |-> <<ty + 128>> \o pText]

\* addMsgB: selector of a system-exclusive message carrying a blob
addMsgB(status, pBlob) == [status |-> status, data |-> pBlob]

\* addHeadMsg / addMomentMsg, the tail of every event function
AddEvent(t, head, sel) ==
  IF head = 1
    THEN /\ m_head' = Append(m_head, sel)
         /\ UNCHANGED <<m_unique, m_filled, m_lower, m_upper, m_moment,
                        range_hist>>
    ELSE LET r == eventRange(t, m_filled, m_lower, m_upper)
         IN  /\ m_unique' = m_unique + 1
             /\ range_hist' = range_hist \cup {pointer_unpack(t)}
             /\ m_moment' = Append(m_moment,
                              [eid |-> m_unique + 1, t |-> t, sel |-> sel])
             /\ m_filled' = r[1]
             /\ m_lower' = r[2]
             /\ m_upper' = r[3]
             /\ UNCHANGED m_head

MidiFail(e) ==
  /\ midi_err' = e
  /\ UNCHANGED <<m_compiled, m_unique, m_filled, m_lower, m_upper, m_head,
                 m_moment, out_file, range_hist>>

midi_null(t, head) ==
  /\ midi_err = "none"
  /\ IF m_compiled = 1 THEN MidiFail("Compiled")
     ELSE IF head = 0
       THEN LET r == eventRange(t, m_filled, m_lower, m_upper)
            IN  /\ m_filled' = r[1]
                /\ m_lower' = r[2]
                /\ m_upper' = r[3]
                /\ range_hist' = range_hist \cup {pointer_unpack(t)}
                /\ UNCHANGED <<m_compiled, m_unique, m_head, m_moment,
                               out_file, midi_err>>
       ELSE UNCHANGED midiVars

MIDI_TEXT_MIN_VAL == 1

MIDI_TEXT_MAX_VAL == 7

MIDI_KEY_COUNT_MIN == -7

MIDI_KEY_COUNT_MAX == 7

midi_text(t, head, tclass, pText) ==
  /\ midi_err = "none"
  /\ IF m_compiled = 1 THEN MidiFail("Compiled")
     ELSE IF (tclass < MIDI_TEXT_MIN_VAL) \/ (tclass > MIDI_TEXT_MAX_VAL)
       THEN MidiFail("Range")
     ELSE /\ AddEvent(t, head, addMsgMT(255, tclass, pText))
          /\ UNCHANGED <<m_compiled, out_file, midi_err>>

midi_key_sig(t, head, count, minor) ==
  /\ midi_err = "none"
  /\ IF m_compiled = 1 THEN MidiFail("Compiled")
     ELSE IF (count < MIDI_KEY_COUNT_MIN) \/ (count > MIDI_KEY_COUNT_MAX)
       THEN MidiFail("Range")
     ELSE /\ AddEvent(t, head, addMsgMD(255, 89,
                 <<IF count < 0 THEN count + 256 ELSE count,
                   IF minor # 0 THEN 1 ELSE 0>>))
          /\ UNCHANGED <<m_compiled, out_file, midi_err>>

midi_custom(t, head, pData) ==
  /\ midi_err = "none"
  /\ IF m_compiled = 1 THEN MidiFail("Compiled")
     ELSE /\ AddEvent(t, head, addMsgMB(255, 127, pData))
          /\ UNCHANGED <<m_compiled, out_file, midi_err>>

\* midi_range_lower: returns m_lower
midi_range_lower ==
  /\ midi_err = "none"
  /\ IF m_compiled = 1 THEN MidiFail("Compiled") ELSE UNCHANGED midiVars

\* midi_range_upper: returns m_upper
midi_range_upper_unchecked == (midi_err = "none") /\ UNCHANGED midiVars

midi_range_upper ==
  /\ midi_err = "none"
  /\ IF m_compiled = 1 THEN MidiFail("Compiled") ELSE UNCHANGED midiVars

midi_tempo(t, head, val) ==
  /\ midi_err = "none"
  /\ IF m_compiled = 1 THEN MidiFail("Compiled")
     ELSE IF (val < 1) \/ (val > 16777215) THEN MidiFail("Range")
     ELSE /\ AddEvent(t, head, addMsgMD(255, 81,
                 <<(val \div 65536) % 256, (val \div 256) % 256, val % 256>>))
          /\ UNCHANGED <<m_compiled, out_file, midi_err>>

\* the loop of midi_time_sig: log2(denom), or -1 when it raises an error
RECURSIVE time_sig_log(_, _)
time_sig_log(i, j) ==
  IF i > 1
    THEN (IF CMod(i, 2) # 0 THEN -1 ELSE time_sig_log(CDiv(i, 2), j + 1))
    ELSE j

midi_time_sig(t, head, num, denom, metro) ==
  /\ midi_err = "none"
  /\ IF m_compiled = 1 THEN MidiFail("Compiled")
     ELSE IF (num < 1) \/ (num > MIDI_TIME_NUM_MAX)
              \/ (denom < 1) \/ (denom > MIDI_TIME_DENOM_MAX)
       THEN MidiFail("Range")
     ELSE IF (metro < 1) \/ (metro > MIDI_TIME_METRO_MAX)
       THEN MidiFail("Range")
     ELSE IF time_sig_log(denom, 0) < 0 THEN MidiFail("Range")
     ELSE /\ AddEvent(t, head, addMsgMD(255, 88,
                 <<num, time_sig_log(denom, 0), metro, 8>>))
          /\ UNCHANGED <<m_compiled, out_file, midi_err>>

midi_system(t, head, pData) ==
  /\ midi_err = "none"
  /\ IF m_compiled = 1 THEN MidiFail("Compiled")
     ELSE /\ AddEvent(t, head,
               addMsgB(IF Len(pData) > 0 /\ pData[1] = 240 THEN 240 ELSE 247,
                       pData))
          /\ UNCHANGED <<m_compiled, out_file, midi_err>>

midi_message(t, head, ch, msg, idx, val) ==
  /\ midi_err = "none"
  /\ IF m_compiled = 1 THEN MidiFail("Compiled")
     ELSE IF (ch < 1) \/ (ch > MIDI_CH_MAX) THEN MidiFail("Range")
     ELSE IF msg \in {MIDI_MSG_NOTE_OFF, MIDI_MSG_NOTE_ON,
                      MIDI_MSG_POLY_AFTERTOUCH, MIDI_MSG_CONTROL}
       THEN IF (idx < 0) \/ (idx > MIDI_DATA_MAX)
                \/ (val < 0) \/ (val > MIDI_DATA_MAX)
              THEN MidiFail("Range")
              ELSE /\ AddEvent(t, head,
                        addMsg2(msg * 16 + (ch - 1), idx, val))
                   /\ UNCHANGED <<m_compiled, out_file, midi_err>>
     ELSE IF msg \in {MIDI_MSG_PROGRAM, MIDI_MSG_CH_AFTERTOUCH}
       THEN IF (val < 0) \/ (val > MIDI_DATA_MAX)
              THEN MidiFail("Range")
              ELSE /\ AddEvent(t, head, addMsg1(msg * 16 + (ch - 1), val))
                   /\ UNCHANGED <<m_compiled, out_file, midi_err>>
     ELSE IF msg = MIDI_MSG_PITCH_BEND
       THEN IF (val < 0) \/ (val > MIDI_WIDE_MAX)
              THEN MidiFail("Range")
              ELSE /\ AddEvent(t, head, addMsg2(msg * 16 + (ch - 1),
                                                val % 128, (val \div 128) % 128))
                   /\ UNCHANGED <<m_compiled, out_file, midi_err>>
     ELSE MidiFail("Range")

\* cmpMoment without its comparison of status classes
cmpMoment_noClass(e1, e2) ==
  LET s1 == e1.sel.status
      s2 == e2.sel.status
      b1 == IF (s1 >= 240) /\ (s1 <= 255) THEN 240 ELSE s1
      b2 == IF (s2 >= 240) /\ (s2 <= 255) THEN 240 ELSE s2
  IN  IF e1.t > e2.t THEN 1
      ELSE IF e1.t < e2.t THEN -1
      ELSE IF b1 > b2 THEN 1
      ELSE IF b1 < b2 THEN -1
      ELSE IF e1.eid > e2.eid THEN 1
      ELSE IF e1.eid < e2.eid THEN -1
      ELSE 0

\* cmpMoment: the qsort() callback over MOMENT records
cmpMoment(e1, e2) ==
  LET s1 == e1.sel.status
      s2 == e2.sel.status
      c1 == IF (s1 >= 128) /\ (s1 <= 175) THEN 2 ELSE 1
      c2 == IF (s2 >= 128) /\ (s2 <= 175) THEN 2 ELSE 1
      b1 == IF (s1 >= 240) /\ (s1 <= 255) THEN 240 ELSE s1
      b2 == IF (s2 >= 240) /\ (s2 <= 255) THEN 240 ELSE s2
  IN  IF e1.t > e2.t THEN 1
      ELSE IF e1.t < e2.t THEN -1
      ELSE IF c1 > c2 THEN 1
      ELSE IF c1 < c2 THEN -1
      ELSE IF b1 > b2 THEN 1
      ELSE IF b1 < b2 THEN -1
      ELSE IF e1.eid > e2.eid THEN 1
      ELSE IF e1.eid < e2.eid THEN -1
      ELSE 0

\* qsort(m_moment, ..., &cmpMoment): cmpMoment is a total order on records
\* with distinct event IDs, so the sorted buffer is the one an insertion
\* sort yields
RECURSIVE qsort_insert(_, _)
qsort_insert(s, e) ==
  IF s = <<>> THEN <<e>>
  ELSE IF cmpMoment(e, Head(s)) < 0 THEN <<e>> \o s
  ELSE <<Head(s)>> \o qsort_insert(Tail(s), e)

RECURSIVE qsort(_)
qsort(s) == IF s = <<>> THEN <<>> ELSE qsort_insert(qsort(Front(s)), Last(s))

\* the in-place loop of midi_compile that turns moment offsets into delta
\* times, from index i on
RECURSIVE deltaLoop(_, _, _)
deltaLoop(buf, i, lower) ==
  IF i > Len(buf) THEN buf
  ELSE LET t1 == pointer_unpack(buf[i].t) - lower
           t2 == IF i > 1 THEN t1 - buf[i - 1].t ELSE t1
       IN  deltaLoop([buf EXCEPT ![i].t = t2], i + 1, lower)

\* decodeVInt: <<count of bytes read, value>> from the front of pBuf
RECURSIVE decodeVInt_from(_, _, _)
decodeVInt_from(pBuf, i, result) ==
  IF pBuf[i] >= 128
    THEN decodeVInt_from(pBuf, i + 1, result * 128 + (pBuf[i] % 128))
    ELSE <<i, result * 128 + pBuf[i]>>

decodeVInt(pBuf) == decodeVInt_from(pBuf, 1, 0)

\* sizeMsg: encoded size of a message given the previous status byte
sizeMsg(sel, prev_status) ==
  LET status == sel.status
      first == IF (prev_status >= 128) /\ (prev_status <= 239)
                  /\ (prev_status = status) THEN 0 ELSE 1
  IN  IF ((status >= 128) /\ (status <= 191))
         \/ ((status >= 224) /\ (status <= 239)) THEN first + 2
      ELSE IF (status >= 192) /\ (status <= 223) THEN first + 1
      ELSE IF status = 240
        THEN first + sizeVInt(Len(sel.data) - 1) + (Len(sel.data) - 1)
      ELSE IF status = 247
        THEN first + sizeVInt(Len(sel.data)) + Len(sel.data)
      ELSE IF sel.data[1] >= 128
        THEN first + 1 + sizeVInt(Len(sel.data) - 1) + (Len(sel.data) - 1)
      ELSE LET d == decodeVInt(Tail(sel.data))
           IN  first + 1 + d[1] + d[2]

\* the running status printMsg stores after writing an event
rstatus_after_any(status) == status

rstatus_after(status) ==
  IF (status >= 128) /\ (status <= 239) THEN status ELSE 0

\* printMsg: <<bytes written, m_rstatus afterwards>>
printMsg(sel, rstatus) ==
  LET status == sel.status
      first == IF (rstatus # 0) /\ (rstatus = status) THEN <<>>
               ELSE <<status>>
      after == rstatus_after(status)
      body == IF ((status >= 128) /\ (status <= 191))
                 \/ ((status >= 224) /\ (status <= 239))
                THEN SubSeq(sel.data, 1, 2)
              ELSE IF (status >= 192) /\ (status <= 223)
                THEN SubSeq(sel.data, 1, 1)
              ELSE IF status = 240
                THEN encodeVInt(Len(sel.data) - 1) \o Tail(sel.data)
              ELSE IF status = 247
                THEN encodeVInt(Len(sel.data)) \o sel.data
              ELSE IF sel.data[1] >= 128
                THEN <<sel.data[1] - 128>> \o encodeVInt(Len(sel.data) - 1)
                       \o Tail(sel.data)
              ELSE LET d == decodeVInt(Tail(sel.data))
                   IN  <<sel.data[1]>>
                         \o SubSeq(sel.data, 2, 1 + d[1] + d[2])
  IN  <<first \o body, after>>

\* the two size loops of midi_compile over the events ev (each [sel, t]),
\* from index i on, prev being the previous status byte
RECURSIVE sizePass(_, _, _)
sizePass(ev, i, prev) ==
  IF i > Len(ev) THEN 0
  ELSE sizeMsg(ev[i].sel, prev) + sizeVInt(ev[i].t)
         + sizePass(ev, i + 1, ev[i].sel.status)

\* the two write loops of midi_compile
RECURSIVE writePass(_, _, _)
writePass(ev, i, rstatus) ==
  IF i > Len(ev) THEN <<>>
  ELSE LET p == printMsg(ev[i].sel, rstatus)
       IN  <<[head |-> ev[i].head, eid |-> ev[i].eid, t |-> ev[i].orig,
              sel |-> ev[i].sel, delta |-> ev[i].t,
              bytes |-> encodeVInt(ev[i].t) \o p[1]]>>
             \o writePass(ev, i + 1, p[2])

\* the order of the loops of midi_compile: header list, then moment list
trackOrder_momentsFirst(heads, moments) == moments \o heads

trackOrder(heads, moments) == heads \o moments

\* the moment of the End-Of-Track event of midi_compile, without its error
eot_moment_start(upper) == pointer_pack(upper, 0)

eot_moment(upper) == pointer_pack(upper, 2)

midi_compile ==
  /\ midi_err = "none"
  /\ IF m_compiled = 1 THEN MidiFail("Compiled")
     ELSE
       LET sorted == IF Len(m_moment) > 1 THEN qsort(m_moment) ELSE m_moment
           eot == eot_moment(m_upper)
       IN  IF pointer_pack_overflows(m_upper, 2)
             THEN /\ midi_err' = "Overflow"
                  /\ m_compiled' = 1
                  /\ UNCHANGED <<m_unique, m_filled, m_lower, m_upper,
                                 m_head, m_moment, out_file, range_hist>>
             ELSE
               LET r == eventRange(eot, m_filled, m_lower, m_upper)
                   capped == Append(sorted,
                               [eid |-> m_unique + 1, t |-> eot,
                                sel |-> addMsgMD(255, 47, <<>>)])
                   conv == deltaLoop(capped, 1, r[2])
                   ev == trackOrder(
                           [i \in 1..Len(m_head) |->
                              [head |-> 1, eid |-> 0, orig |-> 0,
                               sel |-> m_head[i], t |-> 0]],
                           [i \in 1..Len(conv) |->
                              [head |-> 0, eid |-> conv[i].eid,
                               orig |-> capped[i].t, sel |-> conv[i].sel,
                               t |-> conv[i].t]])
               IN  IF \E i \in 1..Len(conv) :
                        (conv[i].t < 0) \/ (conv[i].t > 268435455)
                     THEN /\ midi_err' = "DeltaOverflow"
                          /\ m_compiled' = 1
                          /\ UNCHANGED <<m_unique, m_filled, m_lower,
                                         m_upper, m_head, m_moment, out_file,
                                         range_hist>>
                     ELSE /\ m_compiled' = 1
                          /\ m_unique' = m_unique + 1
                          /\ m_filled' = r[1]
                          /\ m_lower' = r[2]
                          /\ m_upper' = r[3]
                          /\ m_head' = <<>>
                          /\ m_moment' = <<>>
                          /\ range_hist' = range_hist \cup {m_upper}
                          /\ out_file' = [len |-> sizePass(ev, 1, 0),
                                          trk |-> writePass(ev, 1, 0)]
                          /\ UNCHANGED midi_err

(***************************************************************************)
(* control.c : manual events                                               *)
(*                                                                         *)
(* A POINTER argument is modelled by what the function reads of it: head   *)
(* (pointer_isHeader) and, when head is 0, the moment t that               *)
(* pointer_compute resolves it to.                                         *)
(***************************************************************************)
controlVars == <<control_err>>

ControlInit == control_err = "none"

ControlFail(e) ==
  /\ control_err' = e
  /\ UNCHANGED midiVars

\* the while loop of control_time_sig: TRUE when it raises its error
RECURSIVE time_sig_loop_raises(_)
time_sig_loop_raises(v) ==
  IF v > 1
    THEN (IF CMod(v, 2) # 0 THEN time_sig_loop_raises(CDiv(v, 2)) ELSE TRUE)
    ELSE FALSE

control_time_sig(pp, num, denom, metro) ==
  /\ control_err = "none"
  /\ midi_err = "none"
  /\ IF (num < 1) \/ (num > MIDI_TIME_NUM_MAX) THEN ControlFail("Range")
     ELSE IF (denom < 1) \/ (denom > MIDI_TIME_DENOM_MAX)
       THEN ControlFail("Range")
     ELSE IF (metro < 1) \/ (metro > MIDI_TIME_METRO_MAX)
       THEN ControlFail("Range")
     ELSE IF time_sig_loop_raises(denom) THEN ControlFail("PowerOfTwo")
     ELSE /\ midi_time_sig(pp.t, pp.head, num, denom, metro)
          /\ UNCHANGED control_err

(***************************************************************************)
(* art.c : articulations                                                   *)
(***************************************************************************)
artVars == <<art_store, art_ret, art_err>>

NoRet == [pa |-> 0, dur |-> 0, result |-> 0]

ArtInit ==
  /\ art_store = <<>>
  /\ art_ret = NoRet
  /\ art_err = "none"

\* if (m_shutdown) raiseErr(__LINE__, "Articulation module is shut down")
ArtShutdownError ==
  /\ art_err' = "Shutdown"
  /\ UNCHANGED <<art_store, art_ret>>

\* the loop of art_new that brings the scale to a denominator of 8
RECURSIVE art_scale(_, _)
art_scale(scale_num, scale_denom) ==
  IF scale_denom < 8 THEN art_scale(scale_num * 2, scale_denom * 2)
  ELSE scale_num

art_new(scale_num, scale_denom, bumper, gap) ==
  /\ art_err = "none"
  /\ IF m_shutdown.art # 0 THEN ArtShutdownError
     ELSE IF \/ scale_denom \notin {1, 2, 4, 8}
        \/ (scale_num < 1) \/ (scale_num > scale_denom)
        \/ bumper < 0
        \/ gap > 0
       THEN /\ art_err' = "Range"
            /\ UNCHANGED <<art_store, art_ret>>
       ELSE /\ art_store' = Append(art_store,
                               [scale |-> art_scale(scale_num, scale_denom),
                                bumper |-> bumper, gap |-> gap])
            /\ UNCHANGED <<art_ret, art_err>>

\* art_transform raises "Duration overflow"
art_transform_overflows(pa, dur) ==
  LET dur8 == IF dur <= INT32_MAX \div 8 THEN dur * 8 ELSE dur
  IN  dur8 > INT32_MAX \div pa.scale

\* art_transform: the gap limit applied first, then the bumper
art_transform_gapFirst(pa, dur) ==
  LET dur8 == IF dur <= INT32_MAX \div 8 THEN dur * 8 ELSE dur
      r0 == CDiv(dur8 * pa.scale, 8)
      r1 == IF r0 > dur8 + pa.gap THEN dur8 + pa.gap ELSE r0
      r2 == IF r1 < pa.bumper THEN pa.bumper ELSE r1
  IN  IF r2 < 1 THEN 1 ELSE r2

\* art_transform: the performance duration, when no error is raised
art_transform(pa, dur) ==
  LET dur8 == IF dur <= INT32_MAX \div 8 THEN dur * 8 ELSE dur
      r0 == CDiv(dur8 * pa.scale, 8)
      r1 == IF r0 < pa.bumper THEN pa.bumper ELSE r0
      r2 == IF r1 > dur8 + pa.gap THEN dur8 + pa.gap ELSE r1
  IN  IF r2 < 1 THEN 1 ELSE r2

art_transform_call(i, dur) ==
  /\ art_err = "none"
  /\ IF m_shutdown.art # 0 THEN ArtShutdownError
     ELSE /\ i \in 1..Len(art_store)
          /\ IF dur < 1
               THEN /\ art_err' = "Range"
                    /\ UNCHANGED <<art_store, art_ret>>
               ELSE IF art_transform_overflows(art_store[i], dur)
                 THEN /\ art_err' = "Overflow"
                      /\ UNCHANGED <<art_store, art_ret>>
                 ELSE /\ art_ret' = [pa |-> i, dur |-> dur,
                                     result |->
                                       art_transform(art_store[i], dur)]
                      /\ UNCHANGED <<art_store, art_err>>

\* art_shutdown: the chain of articulations is released
art_shutdown ==
  /\ art_err = "none"
  /\ shutdown_calls' = [shutdown_calls EXCEPT !.art = @ + 1]
  /\ IF m_shutdown.art # 0
       THEN UNCHANGED <<artVars, m_shutdown>>
       ELSE /\ m_shutdown' = [m_shutdown EXCEPT !.art = 1]
            /\ art_store' = <<>>
            /\ UNCHANGED <<art_ret, art_err>>

(***************************************************************************)
(* set.c : integer sets                                                    *)
(***************************************************************************)
setVars == <<m_state, m_acc, set_chain, set_err, naive_acc, naive_chain>>

ACC_MAX_CAP == 16384

SET_MAX_TABLE == 16384

SetInit ==
  /\ m_state = 0
  /\ m_acc = <<>>
  /\ set_chain = <<>>
  /\ set_err = "none"
  /\ naive_acc = {}
  /\ naive_chain = <<>>

\* the accumulator an operation works on: polarity, ranges, error raised
Acc(state, acc, err) == [state |-> state, acc |-> acc, err |-> err]

RANGE(lo, hi) == [lo |-> lo, hi |-> hi]

\* the checks of accInsert; i is the zero-based index of the code
accInsert_raises(acc, i, pr) ==
  \/ (i < -1) \/ (i >= Len(acc))
  \/ (pr.lo < 0) \/ (pr.hi < pr.lo)
  \/ (i = -1) /\ (Len(acc) > 0) /\ (pr.lo - 2 < acc[Len(acc)].hi)
  \/ (i # -1) /\ (acc[i + 1].lo - 2 < pr.hi)
  \/ (i > 0) /\ (pr.lo - 2 < acc[i].hi)
  \/ Len(acc) >= ACC_MAX_CAP

accInsert(acc, i, pr) ==
  IF i < 0 THEN Append(acc, pr)
  ELSE SubSeq(acc, 1, i) \o <<pr>> \o SubSeq(acc, i + 1, Len(acc))

accReplace_raises(acc, i, pr) ==
  \/ (i < 0) \/ (i >= Len(acc))
  \/ (pr.lo < 0) \/ (pr.hi < pr.lo)
  \/ (i > 0) /\ (pr.lo - 2 < acc[i].hi)
  \/ (i < Len(acc) - 1) /\ (acc[i + 2].lo - 2 < pr.hi)

accReplace(acc, i, pr) == [acc EXCEPT ![i + 1] = pr]

accDelete(acc, i) == SubSeq(acc, 1, i) \o SubSeq(acc, i + 2, Len(acc))

\* set_rclose, the EXCLUSION loop from index i on
RECURSIVE rclose_exclude(_, _, _, _)
rclose_exclude(acc, i, lo, hi) ==
  IF i >= Len(acc) THEN [acc |-> acc, err |-> FALSE]
  ELSE
    LET c == acc[i + 1] IN
    IF hi < c.lo THEN [acc |-> acc, err |-> FALSE]
    ELSE IF c.hi < lo THEN rclose_exclude(acc, i + 1, lo, hi)
    ELSE IF (c.lo < lo) /\ (c.hi > hi) THEN
      LET r == RANGE(c.lo, lo - 1)
          r2 == RANGE(hi + 1, c.hi)
      IN  IF accReplace_raises(acc, i, r2)
            THEN [acc |-> acc, err |-> TRUE]
          ELSE IF accInsert_raises(accReplace(acc, i, r2), i, r)
            THEN [acc |-> acc, err |-> TRUE]
          ELSE rclose_exclude(accInsert(accReplace(acc, i, r2), i, r),
                              i + 2, lo, hi)
    ELSE IF (c.lo >= lo) /\ (c.hi > hi) THEN
      IF accReplace_raises(acc, i, RANGE(hi + 1, c.hi))
        THEN [acc |-> acc, err |-> TRUE]
      ELSE rclose_exclude(accReplace(acc, i, RANGE(hi + 1, c.hi)),
                          i + 1, lo, hi)
    ELSE IF (c.lo < lo) /\ (c.hi <= hi) THEN
      IF accReplace_raises(acc, i, RANGE(c.lo, lo - 1))
        THEN [acc |-> acc, err |-> TRUE]
      ELSE rclose_exclude(accReplace(acc, i, RANGE(c.lo, lo - 1)),
                          i + 1, lo, hi)
    ELSE rclose_exclude(accDelete(acc, i), i, lo, hi)

\* set_rclose, the INCLUSION loop from index i on: the ranges left, the
\* index the loop stopped at and the expanded new range
RECURSIVE rclose_include(_, _, _, _)
rclose_include(acc, i, lo, hi) ==
  IF i >= Len(acc) THEN [acc |-> acc, i |-> i, lo |-> lo, hi |-> hi]
  ELSE
    LET c == acc[i + 1] IN
    IF hi <= c.lo - 2 THEN [acc |-> acc, i |-> i, lo |-> lo, hi |-> hi]
    ELSE IF c.hi <= lo - 2 THEN rclose_include(acc, i + 1, lo, hi)
    ELSE rclose_include(accDelete(acc, i), i,
                        IF c.lo < lo THEN c.lo ELSE lo,
                        IF c.hi > hi THEN c.hi ELSE hi)

set_rclose(A, lo, hi, exc) ==
  IF A.err # "none" THEN A
  ELSE IF A.state = 0 THEN Acc(A.state, A.acc, "State")
  ELSE IF (lo < 0) \/ (hi < lo) THEN Acc(A.state, A.acc, "Range")
  ELSE
    LET exc2 == IF A.state < 0 THEN ~exc ELSE exc IN
    IF exc2 THEN
      LET x == rclose_exclude(A.acc, 0, lo, hi)
      IN  Acc(A.state, x.acc, IF x.err THEN "Internal" ELSE "none")
    ELSE
      LET x == rclose_include(A.acc, 0, lo, hi)
          i == IF x.i >= Len(x.acc) THEN -1 ELSE x.i
          r == RANGE(x.lo, x.hi)
      IN  IF accInsert_raises(x.acc, i, r)
            THEN Acc(A.state, x.acc, "Internal")
          ELSE Acc(A.state, accInsert(x.acc, i, r), "none")

\* set_ropen, INVERT POLARITY, first loop: the open range takes the lower
\* bound of every range it deletes
RECURSIVE ropen_expand(_, _, _)
ropen_expand(acc, i, lo) ==
  IF i >= Len(acc) THEN [acc |-> acc, lo |-> lo]
  ELSE IF acc[i + 1].hi > lo - 2
    THEN ropen_expand(accDelete(acc, i), i, acc[i + 1].lo)
  ELSE ropen_expand(acc, i + 1, lo)

\* set_ropen, INVERT POLARITY, second loop: each range becomes the medial
\* zone before it
RECURSIVE ropen_medial(_, _, _)
ropen_medial(acc, i, pos) ==
  IF i >= Len(acc) THEN [acc |-> acc, pos |-> pos, err |-> FALSE]
  ELSE
    LET c == acc[i + 1] IN
    IF (pos < 0) /\ (c.lo > 0) THEN
      IF accReplace_raises(acc, i, RANGE(0, c.lo - 1))
        THEN [acc |-> acc, pos |-> pos, err |-> TRUE]
      ELSE ropen_medial(accReplace(acc, i, RANGE(0, c.lo - 1)),
                        i + 1, c.hi + 1)
    ELSE IF (pos < 0) /\ (c.lo < 1) THEN
      ropen_medial(accDelete(acc, i), i, c.hi + 1)
    ELSE
      IF accReplace_raises(acc, i, RANGE(pos, c.lo - 1))
        THEN [acc |-> acc, pos |-> pos, err |-> TRUE]
      ELSE ropen_medial(accReplace(acc, i, RANGE(pos, c.lo - 1)),
                        i + 1, c.hi + 1)

\* set_ropen, KEEP POLARITY loop
RECURSIVE ropen_keep(_, _, _)
ropen_keep(acc, i, lo) ==
  IF i >= Len(acc) THEN [acc |-> acc, err |-> FALSE]
  ELSE
    LET c == acc[i + 1] IN
    IF c.lo >= lo THEN ropen_keep(accDelete(acc, i), i, lo)
    ELSE IF c.hi >= lo THEN
      IF accReplace_raises(acc, i, RANGE(c.lo, lo - 1))
        THEN [acc |-> acc, err |-> TRUE]
      ELSE ropen_keep(accReplace(acc, i, RANGE(c.lo, lo - 1)), i + 1, lo)
    ELSE ropen_keep(acc, i + 1, lo)

\* the tail of set_ropen's INVERT POLARITY branch: append the last medial
\* zone and flip the polarity
ropen_finish(A, acc, pos, lo) ==
  LET r == IF pos < 0 THEN RANGE(0, lo - 1) ELSE RANGE(pos, lo - 1)
  IN  IF ((pos < 0) /\ (lo > 0)) \/ (pos >= 0)
        THEN IF accInsert_raises(acc, -1, r)
               THEN Acc(A.state, acc, "Internal")
             ELSE Acc(0 - A.state, accInsert(acc, -1, r), "none")
      ELSE Acc(0 - A.state, acc, "none")

set_ropen(A, lo, exc) ==
  IF A.err # "none" THEN A
  ELSE IF A.state = 0 THEN Acc(A.state, A.acc, "State")
  ELSE IF lo < 0 THEN Acc(A.state, A.acc, "Range")
  ELSE IF ((~exc) /\ (A.state > 0)) \/ (exc /\ (A.state < 0)) THEN
    LET e == ropen_expand(A.acc, 0, lo)
        m == ropen_medial(e.acc, 0, -1)
    IN  IF m.err THEN Acc(A.state, m.acc, "Internal")
        ELSE ropen_finish(A, m.acc, m.pos, e.lo)
  ELSE
    LET k == ropen_keep(A.acc, 0, lo)
    IN  Acc(A.state, k.acc, IF k.err THEN "Internal" ELSE "none")

encodeEntry(v, o) == IF o THEN (0 - v) - 1 ELSE v

decodeEntry(e) == IF e < 0 THEN 0 - (e + 1) ELSE e

\* the open flag decodeEntry writes to *po
decodeEntry_open(e) == e < 0

\* scanRange, the loop over the entries after the first
RECURSIVE scanRange_loop(_, _, _, _)
scanRange_loop(table, pi, lo, hi) ==
  IF pi >= Len(table) THEN [pi |-> pi, lo |-> lo, hi |-> hi]
  ELSE
    LET n == decodeEntry(table[pi + 1]) IN
    IF (hi >= 0) /\ (n - 2 >= hi) THEN [pi |-> pi, lo |-> lo, hi |-> hi]
    ELSE scanRange_loop(table, pi + 1, lo,
                        IF decodeEntry_open(table[pi + 1]) THEN -1 ELSE n)

\* scanRange for *pi < ps->len: the decoded range and the updated index
scanRange(table, pi) ==
  LET lo == decodeEntry(table[pi + 1])
  IN  scanRange_loop(table, pi + 1, lo,
                     IF decodeEntry_open(table[pi + 1]) THEN -1 ELSE lo)

RECURSIVE set_union_from(_, _, _)
set_union_from(A, table, i) ==
  IF i >= Len(table) THEN A
  ELSE
    LET r == scanRange(table, i)
    IN  set_union_from(IF r.hi >= 0 THEN set_rclose(A, r.lo, r.hi, FALSE)
                       ELSE set_ropen(A, r.lo, FALSE),
                       table, r.pi)

set_union(A, table) ==
  IF A.state = 0 THEN Acc(A.state, A.acc, "State")
  ELSE set_union_from(A, table, 0)

RECURSIVE set_intersect_from(_, _, _, _)
set_intersect_from(A, table, i, pos) ==
  IF i >= Len(table)
    THEN IF pos >= 0 THEN set_ropen(A, pos, TRUE) ELSE A
  ELSE IF pos < 0 THEN Acc(A.state, A.acc, "Internal")
  ELSE
    LET r == scanRange(table, i)
    IN  set_intersect_from(
          IF r.lo > pos THEN set_rclose(A, pos, r.lo - 1, TRUE) ELSE A,
          table, r.pi,
          IF (r.hi >= 0) /\ (r.hi < INT32_MAX) THEN r.hi + 1 ELSE -1)

set_intersect(A, table) ==
  IF A.state = 0 THEN Acc(A.state, A.acc, "State")
  ELSE set_intersect_from(A, table, 0, 0)

RECURSIVE set_except_from(_, _, _)
set_except_from(A, table, i) ==
  IF i >= Len(table) THEN A
  ELSE
    LET r == scanRange(table, i)
    IN  set_except_from(IF r.hi >= 0 THEN set_rclose(A, r.lo, r.hi, TRUE)
                        ELSE set_ropen(A, r.lo, TRUE),
                        table, r.pi)

set_except(A, table) ==
  IF A.state = 0 THEN Acc(A.state, A.acc, "State")
  ELSE set_except_from(A, table, 0)

\* set_end, positive polarity: the table generated from range i on
RECURSIVE set_end_positive(_, _)
set_end_positive(acc, i) ==
  IF i >= Len(acc) THEN <<>>
  ELSE
    LET c == acc[i + 1]
        e == IF c.lo = c.hi THEN <<encodeEntry(c.lo, FALSE)>>
             ELSE IF c.lo = c.hi - 1
               THEN <<encodeEntry(c.lo, FALSE), encodeEntry(c.hi, FALSE)>>
             ELSE <<encodeEntry(c.lo, TRUE), encodeEntry(c.hi, FALSE)>>
    IN  e \o set_end_positive(acc, i + 1)

\* set_end, negative polarity: the table generated from range i on, with
\* pos the first value after the previous range
RECURSIVE set_end_negative(_, _, _)
set_end_negative(acc, i, pos) ==
  IF i >= Len(acc)
    THEN IF pos >= 0 THEN <<encodeEntry(pos, TRUE)>> ELSE <<>>
  ELSE
    LET c == acc[i + 1]
        e == IF c.lo - 1 = pos THEN <<encodeEntry(pos, FALSE)>>
             ELSE IF c.lo - 2 = pos
               THEN <<encodeEntry(pos, FALSE), encodeEntry(pos + 1, FALSE)>>
             ELSE IF c.lo - 3 >= pos
               THEN <<encodeEntry(pos, TRUE), encodeEntry(c.lo - 1, FALSE)>>
             ELSE <<>>
    IN  e \o set_end_negative(acc, i + 1,
                              IF c.hi < INT32_MAX THEN c.hi + 1 ELSE -1)

\* the table of the set object set_end builds
set_end_table(state, acc) ==
  IF state > 0 THEN set_end_positive(acc, 0)
  ELSE set_end_negative(acc, 0, 0)

\* set_has, the loop that zooms the search range in
RECURSIVE set_has_zoom(_, _, _, _)
set_has_zoom(table, lo, hi, val) ==
  IF lo >= hi THEN lo
  ELSE
    LET m0 == lo + CDiv(hi - lo, 2)
        mid == IF m0 <= lo THEN lo + 1 ELSE m0
        v == decodeEntry(table[mid + 1])
    IN  IF v < val THEN set_has_zoom(table, mid, hi, val)
        ELSE IF v > val THEN set_has_zoom(table, lo, mid - 1, val)
        ELSE mid

set_has(table, val) ==
  IF Len(table) > 0 THEN
    LET lo == set_has_zoom(table, 0, Len(table) - 1, val)
        v == decodeEntry(table[lo + 1])
    IN  IF decodeEntry_open(table[lo + 1]) THEN val >= v ELSE val = v
  ELSE FALSE

\* what the set functions leave in the module's variables
\* raiseErr: the error ends the process, and with it the module's memory
SetFail(e) ==
  /\ set_err' = e
  /\ m_state' = 0
  /\ m_acc' = <<>>
  /\ set_chain' = <<>>
  /\ naive_acc' = {}
  /\ naive_chain' = <<>>

\* what a set function leaves in the module's variables, with the naive
\* value of the definition after it
SetStore(A, naive) ==
  IF A.err # "none" THEN SetFail(A.err)
  ELSE /\ m_state' = A.state
       /\ m_acc' = A.acc
       /\ naive_acc' = naive
       /\ UNCHANGED <<set_chain, set_err, naive_chain>>

\* the values a naive evaluation keeps track of; the last one stands for
\* every value above the bounds the operations name
SetWindow == 0..4

set_begin ==
  /\ set_err = "none"
  /\ IF m_state # 0 THEN SetFail("State")
     ELSE /\ m_state' = 1
          /\ m_acc' = <<>>
          /\ naive_acc' = {}
          /\ UNCHANGED <<set_chain, set_err, naive_chain>>

set_all ==
  /\ set_err = "none"
  /\ IF m_state = 0 THEN SetFail("State")
     ELSE /\ m_state' = -1
          /\ m_acc' = <<>>
          /\ naive_acc' = SetWindow
          /\ UNCHANGED <<set_chain, set_err, naive_chain>>

set_none ==
  /\ set_err = "none"
  /\ IF m_state = 0 THEN SetFail("State")
     ELSE /\ m_state' = 1
          /\ m_acc' = <<>>
          /\ naive_acc' = {}
          /\ UNCHANGED <<set_chain, set_err, naive_chain>>

set_invert ==
  /\ set_err = "none"
  /\ IF m_state = 0 THEN SetFail("State")
     ELSE /\ m_state' = 0 - m_state
          /\ naive_acc' = SetWindow \ naive_acc
          /\ UNCHANGED <<m_acc, set_chain, set_err, naive_chain>>

SetRclose(lo, hi, exc) ==
  /\ set_err = "none"
  /\ SetStore(set_rclose(Acc(m_state, m_acc, "none"), lo, hi, exc),
              IF exc THEN naive_acc \ (lo..hi)
              ELSE naive_acc \cup ((lo..hi) \cap SetWindow))

SetRopen(lo, exc) ==
  /\ set_err = "none"
  /\ SetStore(set_ropen(Acc(m_state, m_acc, "none"), lo, exc),
              IF exc THEN {x \in naive_acc : x < lo}
              ELSE naive_acc \cup {x \in SetWindow : x >= lo})

SetUnion(s) ==
  /\ set_err = "none"
  /\ SetStore(set_union(Acc(m_state, m_acc, "none"), set_chain[s]),
              naive_acc \cup naive_chain[s])

SetIntersect(s) ==
  /\ set_err = "none"
  /\ SetStore(set_intersect(Acc(m_state, m_acc, "none"), set_chain[s]),
              naive_acc \cap naive_chain[s])

SetExcept(s) ==
  /\ set_err = "none"
  /\ SetStore(set_except(Acc(m_state, m_acc, "none"), set_chain[s]),
              naive_acc \ naive_chain[s])

set_end ==
  /\ set_err = "none"
  /\ IF m_state = 0 THEN SetFail("State")
     ELSE IF Len(set_end_table(m_state, m_acc)) > SET_MAX_TABLE
       THEN SetFail("Complex")
     ELSE /\ set_chain' = Append(set_chain, set_end_table(m_state, m_acc))
          /\ naive_chain' = Append(naive_chain, naive_acc)
          /\ m_state' = 0
          /\ m_acc' = <<>>
          /\ naive_acc' = {}
          /\ UNCHANGED set_err

(***************************************************************************)
(* graph.c : graphs                                                        *)
(***************************************************************************)
graphVars == <<graph_load, graph_acc, graph_acc_t, graph_buf, graph_chain,
               graph_err, graph_res, graph_cache, graph_ret>>

CACHE_MAX_CAP == 1048576

GRAPH_MAX_TABLE == 16384

STATE_EMPTY == 0

STATE_CONST == 1

STATE_RAMP == 2

STATE_DERIVE == 3

\* memset(&m_buf, 0, sizeof(REGION))
EmptyBuf ==
  [state |-> STATE_EMPTY, t |-> 0, a |-> 0, b |-> 0, c |-> 0, use_log |-> 0,
   min_val |-> 0, max_val |-> 0, pg |-> 0, t_src |-> 0]

NoRes == [buf |-> EmptyBuf, t_next |-> 0, has_next |-> 0, emit |-> <<>>,
          err |-> "none"]

GraphInit ==
  /\ graph_load = 0
  /\ graph_acc = <<>>
  /\ graph_acc_t = 0
  /\ graph_buf = EmptyBuf
  /\ graph_chain = <<>>
  /\ graph_err = "none"
  /\ graph_res = NoRes
  /\ graph_cache = <<>>
  /\ graph_ret = 0

NODE(t, v) == [t |-> t, v |-> v]

\* the accumulator register while a region is resolved: nodes, m_acc_t,
\* the nodes accAppend accepted so far, and the error raised
GAcc(acc, t, emit, err) == [acc |-> acc, t |-> t, emit |-> emit, err |-> err]

\* accAppend without the test that leaves out a node of unchanged value
accAppend_keepEqual(A, t, v) ==
  IF A.err # "none" THEN A
  ELSE IF v < 0 THEN GAcc(A.acc, A.t, A.emit, "Negative")
  ELSE IF (Len(A.acc) > 0) /\ (t <= A.t)
    THEN GAcc(A.acc, A.t, A.emit, "Chronological")
  ELSE IF Len(A.acc) >= GRAPH_MAX_TABLE
    THEN GAcc(A.acc, t, A.emit, "Complex")
  ELSE GAcc(Append(A.acc, NODE(t, v)), t, Append(A.emit, NODE(t, v)), "none")

accAppend(A, t, v) ==
  IF A.err # "none" THEN A
  ELSE IF v < 0 THEN GAcc(A.acc, A.t, A.emit, "Negative")
  ELSE IF (Len(A.acc) > 0) /\ (t <= A.t)
    THEN GAcc(A.acc, A.t, A.emit, "Chronological")
  ELSE IF (Len(A.acc) > 0) /\ (A.acc[Len(A.acc)].v = v)
    THEN GAcc(A.acc, t, Append(A.emit, NODE(t, v)), "none")
  ELSE IF Len(A.acc) >= GRAPH_MAX_TABLE
    THEN GAcc(A.acc, t, A.emit, "Complex")
  ELSE GAcc(Append(A.acc, NODE(t, v)), t, Append(A.emit, NODE(t, v)), "none")

\* graphSeek, the loop that zooms in on the node
RECURSIVE graphSeek_zoom(_, _, _, _)
graphSeek_zoom(table, lo, hi, t) ==
  IF lo >= hi THEN lo
  ELSE
    LET m0 == lo + CDiv(hi - lo, 2)
        mid == IF m0 <= lo THEN lo + 1 ELSE m0
        m == table[mid + 1].t
    IN  IF m < t THEN graphSeek_zoom(table, mid, hi, t)
        ELSE IF m > t THEN graphSeek_zoom(table, lo, mid - 1, t)
        ELSE mid

\* graphSeek that takes the node found only when it lies before t
graphSeek_before(table, t) ==
  LET lo == graphSeek_zoom(table, 0, Len(table) - 1, t)
  IN  IF table[lo + 1].t < t THEN lo ELSE -1

\* zero-based index of the node covering t, or -1
graphSeek(table, t) ==
  LET lo == graphSeek_zoom(table, 0, Len(table) - 1, t)
  IN  IF table[lo + 1].t <= t THEN lo ELSE -1

graph_query(table, t) ==
  LET i == graphSeek(table, t)
  IN  table[(IF i < 0 THEN 0 ELSE i) + 1].v

\* graph_track, the loop over the nodes after the first
RECURSIVE graph_track_rest(_, _, _, _)
graph_track_rest(table, i, t_end, has_end) ==
  IF i >= Len(table) THEN <<>>
  ELSE IF (has_end # 0) /\ (table[i + 1].t > t_end) THEN <<>>
  ELSE <<NODE(table[i + 1].t, table[i + 1].v)>>
         \o graph_track_rest(table, i + 1, t_end, has_end)

graph_track_raises(t_start, t_end, v_start, has_end, has_v_start) ==
  \/ (has_end # 0) /\ (t_end < t_start)
  \/ (has_v_start # 0) /\ (v_start < 0)

\* graph_track: the callbacks made, in order, as (t, v)
graph_track(table, t_start, t_end, v_start, has_end, has_v_start) ==
  LET s == graphSeek(table, t_start)
      i == IF s < 0 THEN 0 ELSE s
      first == IF (has_v_start # 0) /\ (table[i + 1].v = v_start) THEN <<>>
               ELSE <<NODE(t_start, table[i + 1].v)>>
  IN  first \o graph_track_rest(table, i + 1, t_end, has_end)

\* the int64_t value clamped to the range of int32_t
clamp32(x) ==
  IF x < INT32_MIN THEN INT32_MIN ELSE IF x > INT32_MAX THEN INT32_MAX ELSE x

\* resolveTrack, the transformed value
resolveTrack_value(buf, v) ==
  LET s == clamp32(CDiv(v * buf.a, buf.b))
      k == clamp32(s + buf.c)
      lo == IF k < buf.min_val THEN buf.min_val ELSE k
  IN  IF (buf.max_val >= 0) /\ (lo > buf.max_val) THEN buf.max_val ELSE lo

resolveTrack(A, buf, t, v) ==
  IF A.err # "none" THEN A
  ELSE IF v < 0 THEN GAcc(A.acc, A.t, A.emit, "Internal")
  ELSE IF t >= buf.t_src
    THEN accAppend(A, t - buf.t_src, resolveTrack_value(buf, v))
  ELSE GAcc(A.acc, A.t, A.emit, "Internal")

\* the callbacks of graph_track handed to resolveTrack one after another
RECURSIVE resolveTrack_all(_, _, _, _)
resolveTrack_all(A, buf, calls, i) ==
  IF i > Len(calls) THEN A
  ELSE resolveTrack_all(resolveTrack(A, buf, calls[i].t, calls[i].v),
                        buf, calls, i + 1)

\* resolve, the value of the ramp at subquantum t (linear interpolation,
\* exact where (t - ts) / (te - ts) is a binary fraction)
ramp_value(buf, t, ts, te) ==
  LET tv == buf.a + (((buf.b - buf.a) * (t - ts)) \div (te - ts))
  IN  IF tv < 0 THEN 0 ELSE IF tv > INT32_MAX THEN INT32_MAX ELSE tv

\* resolve, the loop that adds the rest of the ramp
RECURSIVE ramp_loop(_, _, _, _, _, _)
ramp_loop(A, buf, t, ts, te, mp) ==
  IF (t >= te) \/ (A.err # "none") THEN A
  ELSE IF pointer_pack_overflows(t, mp)
    THEN GAcc(A.acc, A.t, A.emit, "Overflow")
  ELSE ramp_loop(accAppend(A, pointer_pack(t, mp), ramp_value(buf, t, ts, te)),
                 buf, t + buf.c, ts, te, mp)

\* resolve, the ramp branch; t is the local that starts out as zero
resolve_ramp(A, buf, t_next) ==
  LET A1 == accAppend(A, buf.t, buf.a)
      ts == pointer_unpack(buf.t)
      mp == pointer_unpack_p(buf.t)[2]
      t == 0
      te == pointer_unpack(t_next)
  IN  IF A1.err # "none" THEN A1
      ELSE IF t < 0 THEN
        LET d == CDiv(0 - ts, buf.c) * (0 - buf.c)
            r == IF d > ts THEN d - buf.c ELSE d
        IN  ramp_loop(A1, buf, r + buf.c, ts, te, mp)
      ELSE IF buf.t >= 0 THEN
        ramp_loop(A1, buf, (CDiv(ts, buf.c) * buf.c) + buf.c, ts, te, mp)
      ELSE GAcc(A1.acc, A1.t, A1.emit, "Internal")

\* resolve, the derived branch
resolve_derive(A, buf, t_next, has_next) ==
  LET iv64 == (t_next - buf.t) + buf.t_src
      track_has_end == IF (has_next # 0) /\ (iv64 >= INT32_MIN)
                          /\ (iv64 <= INT32_MAX) THEN 1 ELSE 0
      track_end_t == IF track_has_end = 1 THEN iv64 ELSE 0
  IN  IF graph_track_raises(buf.t_src, track_end_t, 0, track_has_end, 0)
        THEN GAcc(A.acc, A.t, A.emit, "Internal")
      ELSE resolveTrack_all(A, buf,
             graph_track(graph_chain[buf.pg], buf.t_src, track_end_t, 0,
                         track_has_end, 0), 1)

\* resolve that lets a ramp be the last region: its start value is entered
resolve_rampOpen(A, buf, t_next, has_next) ==
  LET st == IF (buf.state = STATE_RAMP) /\ (buf.a = buf.b) THEN STATE_CONST
            ELSE buf.state
  IN  IF (has_next # 0) /\ (buf.state # STATE_EMPTY) /\ (t_next <= buf.t)
        THEN GAcc(A.acc, A.t, A.emit, "Chronological")
      ELSE IF st = STATE_CONST THEN accAppend(A, buf.t, buf.a)
      ELSE IF st = STATE_DERIVE THEN resolve_derive(A, buf, t_next, has_next)
      ELSE IF st = STATE_RAMP THEN
        IF has_next = 0 THEN accAppend(A, buf.t, buf.a)
        ELSE resolve_ramp(A, buf, t_next)
      ELSE A

\* resolve: the accumulator after the buffered region has been resolved
resolve(A, buf, t_next, has_next) ==
  LET st == IF (buf.state = STATE_RAMP) /\ (buf.a = buf.b) THEN STATE_CONST
            ELSE buf.state
  IN  IF (has_next # 0) /\ (buf.state # STATE_EMPTY) /\ (t_next <= buf.t)
        THEN GAcc(A.acc, A.t, A.emit, "Chronological")
      ELSE IF st = STATE_CONST THEN accAppend(A, buf.t, buf.a)
      ELSE IF st = STATE_DERIVE THEN resolve_derive(A, buf, t_next, has_next)
      ELSE IF st = STATE_RAMP THEN
        IF has_next = 0 THEN GAcc(A.acc, A.t, A.emit, "RampLast")
        ELSE resolve_ramp(A, buf, t_next)
      ELSE A

\* raiseErr: the error ends the process, and with it the module's memory
GraphFail(e) ==
  /\ graph_err' = e
  /\ graph_load' = 0
  /\ graph_acc' = <<>>
  /\ graph_acc_t' = 0
  /\ graph_buf' = EmptyBuf
  /\ graph_chain' = <<>>
  /\ graph_cache' = <<>>
  /\ graph_ret' = 0

\* history: the region a call of resolve worked on, and what came of it
GraphRes(buf, t_next, has_next, A) ==
  IF buf.state = STATE_EMPTY THEN NoRes
  ELSE [buf |-> buf, t_next |-> t_next, has_next |-> has_next,
        emit |-> A.emit, err |-> A.err]

\* resolve(t, 1) followed by the buffering of the region newbuf
graph_add(t, newbuf) ==
  LET A == resolve(GAcc(graph_acc, graph_acc_t, <<>>, "none"), graph_buf, t, 1)
  IN  /\ graph_res' = GraphRes(graph_buf, t, 1, A)
      /\ IF A.err # "none" THEN GraphFail(A.err)
         ELSE /\ graph_acc' = A.acc
              /\ graph_acc_t' = A.t
              /\ graph_buf' = newbuf
              /\ graph_ret' = 0
              /\ UNCHANGED <<graph_load, graph_chain, graph_err, graph_cache>>

\* graph_begin without the test of m_load
graph_begin_reload ==
  /\ graph_err = "none"
  /\ graph_load' = 1
  /\ graph_acc' = <<>>
  /\ graph_acc_t' = 0
  /\ graph_buf' = EmptyBuf
  /\ graph_res' = NoRes
  /\ graph_ret' = 0
  /\ UNCHANGED <<graph_chain, graph_err, graph_cache>>

graph_begin ==
  /\ graph_err = "none"
  /\ IF graph_load # 0 THEN GraphFail("Loaded") /\ UNCHANGED graph_res
     ELSE /\ graph_load' = 1
          /\ graph_acc' = <<>>
          /\ graph_acc_t' = 0
          /\ graph_buf' = EmptyBuf
          /\ graph_res' = NoRes
          /\ graph_ret' = 0
          /\ UNCHANGED <<graph_chain, graph_err, graph_cache>>

graph_add_constant(t, v) ==
  /\ graph_err = "none"
  /\ IF graph_load = 0 THEN GraphFail("NotLoaded") /\ UNCHANGED graph_res
     ELSE IF v < 0 THEN GraphFail("Negative") /\ UNCHANGED graph_res
     ELSE graph_add(t, [EmptyBuf EXCEPT !.state = STATE_CONST,
                                        !.t = t, !.a = v])

graph_add_ramp(t, a, b, s, use_log) ==
  /\ graph_err = "none"
  /\ IF graph_load = 0 THEN GraphFail("NotLoaded") /\ UNCHANGED graph_res
     ELSE IF (a < 0) \/ (b < 0)
       THEN GraphFail("Negative") /\ UNCHANGED graph_res
     ELSE IF s < 1 THEN GraphFail("Step") /\ UNCHANGED graph_res
     ELSE IF a = b
       THEN graph_add(t, [EmptyBuf EXCEPT !.state = STATE_CONST,
                                          !.t = t, !.a = a])
     ELSE graph_add(t, [EmptyBuf EXCEPT !.state = STATE_RAMP, !.t = t,
                                        !.a = a, !.b = b, !.c = s,
                                        !.use_log = use_log])

graph_add_derived(t, pg, t_src, numerator, denominator, c, min_val, max_val) ==
  /\ graph_err = "none"
  /\ IF graph_load = 0 THEN GraphFail("NotLoaded") /\ UNCHANGED graph_res
     ELSE IF (numerator < 0) \/ (denominator < 1) \/ (min_val < 0)
              \/ (max_val < -1)
       THEN GraphFail("Range") /\ UNCHANGED graph_res
     ELSE graph_add(t, [state |-> STATE_DERIVE, t |-> t, a |-> numerator,
                        b |-> denominator, c |-> c, use_log |-> 0,
                        min_val |-> min_val, max_val |-> max_val,
                        pg |-> pg, t_src |-> t_src])

\* the binary search of cache_get over entries lo..hi (counted from 0)
RECURSIVE cache_zoom(_, _, _, _)
cache_zoom(cache, v, lo, hi) ==
  IF lo < hi
    THEN LET half == lo + ((hi - lo) \div 2)
             mid == IF half >= hi THEN hi - 1 ELSE half
             p == cache[mid + 1].v
         IN  IF p > v THEN cache_zoom(cache, v, lo, mid)
             ELSE IF p < v THEN cache_zoom(cache, v, mid + 1, hi)
             ELSE cache_zoom(cache, v, mid, mid)
  ELSE hi

\* pos: the entry of least value among those of value >= v, or -1
cache_pos(cache, v) ==
  IF Len(cache) > 0
    THEN LET hi == cache_zoom(cache, v, 0, Len(cache) - 1)
         IN  IF cache[hi + 1].v >= v THEN hi ELSE -1
  ELSE -1

\* the entries from pos on moved one to the right, the new entry at pos
cache_insert(cache, pos, e) ==
  [i \in 1..(Len(cache) + 1) |->
     IF i < pos + 1 THEN cache[i]
     ELSE IF i = pos + 1 THEN e
     ELSE cache[i - 1]]

\* cache_get that constructs a graph object on every call
cache_get_fresh(v) ==
  IF Len(graph_cache) >= CACHE_MAX_CAP
    THEN [err |-> "CacheOverflow", chain |-> graph_chain,
          cache |-> graph_cache, pg |-> 0]
  ELSE [err |-> "none",
        chain |-> Append(graph_chain, <<NODE(0, v)>>),
        cache |-> Append(graph_cache,
                         [v |-> v, pg |-> Len(graph_chain) + 1]),
        pg |-> Len(graph_chain) + 1]

\* cache_get: the chain and the cache after a constant graph of value v was
\* asked for, and the graph returned (a graph is named by its place in the
\* chain)
cache_get(v) ==
  LET pos == cache_pos(graph_cache, v)
  IN  IF (pos < 0) \/ (graph_cache[pos + 1].v # v)
        THEN IF Len(graph_cache) >= CACHE_MAX_CAP
               THEN [err |-> "CacheOverflow", chain |-> graph_chain,
                     cache |-> graph_cache, pg |-> 0]
             ELSE [err |-> "none",
                   chain |-> Append(graph_chain, <<NODE(0, v)>>),
                   cache |-> cache_insert(graph_cache,
                               IF pos < 0 THEN Len(graph_cache) ELSE pos,
                               [v |-> v, pg |-> Len(graph_chain) + 1]),
                   pg |-> Len(graph_chain) + 1]
      ELSE [err |-> "none", chain |-> graph_chain, cache |-> graph_cache,
            pg |-> graph_cache[pos + 1].pg]

graph_constant(v) ==
  /\ graph_err = "none"
  /\ IF v < 0 THEN GraphFail("Negative")
     ELSE LET C == cache_get(v)
          IN  IF C.err # "none" THEN GraphFail(C.err)
              ELSE /\ graph_chain' = C.chain
                   /\ graph_cache' = C.cache
                   /\ graph_ret' = C.pg
                   /\ UNCHANGED <<graph_load, graph_acc, graph_acc_t,
                                  graph_buf, graph_err>>
  /\ UNCHANGED graph_res

\* accTake: the graph made of the accumulator register acc
accTake(acc) ==
  IF Len(acc) = 1 THEN cache_get(acc[1].v)
  ELSE [err |-> "none", chain |-> Append(graph_chain, acc),
        cache |-> graph_cache, pg |-> Len(graph_chain) + 1]

\* graph_end: resolve(0, 0), then accTake
graph_end ==
  /\ graph_err = "none"
  /\ IF graph_load = 0 THEN GraphFail("NotLoaded") /\ UNCHANGED graph_res
     ELSE
       LET A == resolve(GAcc(graph_acc, graph_acc_t, <<>>, "none"),
                        graph_buf, 0, 0)
       IN  /\ graph_res' = GraphRes(graph_buf, 0, 0, A)
           /\ IF A.err # "none" THEN GraphFail(A.err)
              ELSE IF Len(A.acc) < 1 THEN GraphFail("Empty")
              ELSE LET C == accTake(A.acc)
                   IN  IF C.err # "none" THEN GraphFail(C.err)
                       ELSE /\ graph_chain' = C.chain
                            /\ graph_cache' = C.cache
                            /\ graph_ret' = C.pg
                            /\ graph_load' = 0
                            /\ graph_acc' = <<>>
                            /\ graph_acc_t' = 0
                            /\ graph_buf' = EmptyBuf
                            /\ UNCHANGED graph_err

(***************************************************************************)
(* ruler.c and render.c : the note rendering pipeline                      *)
(*                                                                         *)
(* Classifiers hold the objects they point at: a set is its table, an ART  *)
(* is [scale, bumper, gap], a RULER is [slot, gap], a graph is its table.  *)
(* An NMF note is [t, dur, pitch, art, sect, layer_i]; the NMF library     *)
(* hands out pitches and articulations within range only.                  *)
(***************************************************************************)
renderVars == <<m_render, m_pipe, m_buf, render_err, nmf_pd>>

CLASS_ART == 1

CLASS_RULER == 2

CLASS_GRAPH == 3

CLASS_CHANNEL == 4

CLASS_RELEASE == 5

CLASS_AFTERTOUCH == 6

PIPE_MAX_CAP == 16384

RenderInit ==
  /\ m_render = 0
  /\ m_pipe = <<>>
  /\ m_buf = <<>>
  /\ render_err = "none"
  /\ nmf_pd = <<>>

\* ruler_pos raises "Ruler overflow"; INT32_MIN / slot is written without
\* the magnitude of INT32_MIN, for slot >= 1
ruler_pos_overflows(pr, beat, i) ==
  \/ i < 0 - (((INT32_MAX - (pr.slot - 1)) \div pr.slot) + 1)
  \/ beat < INT32_MIN - (i * pr.slot)

ruler_pos(pr, beat, i) == (i * pr.slot) + beat

ruler_dur(pr) == pr.slot + pr.gap

\* art_new(1, 1, 8, 0, -1)
m_def_art == [scale |-> 8, bumper |-> 8, gap |-> 0]

\* ruler_new(48, 0, -1)
m_def_ruler == [slot |-> 48, gap |-> 0]

\* graph_constant(64, -1)
m_def_graph == <<NODE(0, 64)>>

\* runPipe, the classifiers from index i on applied to the result r
RECURSIVE runPipe_from(_, _, _)
runPipe_from(pn, r, i) ==
  IF i > Len(m_pipe) THEN r
  ELSE
    LET pc == m_pipe[i] IN
    IF set_has(pc.pSect, pn.sect) /\ set_has(pc.pLayer, pn.layer_i + 1)
       /\ set_has(pc.pArt, pn.art)
      THEN runPipe_from(pn,
             IF pc.ctype = CLASS_ART THEN [r EXCEPT !.pArt = pc.v]
             ELSE IF pc.ctype = CLASS_RULER THEN [r EXCEPT !.pRuler = pc.v]
             ELSE IF pc.ctype = CLASS_GRAPH THEN [r EXCEPT !.pGraph = pc.v]
             ELSE IF pc.ctype = CLASS_CHANNEL THEN [r EXCEPT !.ch = pc.v]
             ELSE IF pc.ctype = CLASS_RELEASE THEN [r EXCEPT !.release = pc.v]
             ELSE [r EXCEPT !.after = pc.v],
             i + 1)
    ELSE runPipe_from(pn, r, i + 1)

\* runPipe with the pipeline run from its end to its start
RECURSIVE runPipe_back(_, _, _)
runPipe_back(pn, r, i) ==
  IF i < 1 THEN r
  ELSE
    LET pc == m_pipe[i] IN
    IF set_has(pc.pSect, pn.sect) /\ set_has(pc.pLayer, pn.layer_i + 1)
       /\ set_has(pc.pArt, pn.art)
      THEN runPipe_back(pn,
             IF pc.ctype = CLASS_ART THEN [r EXCEPT !.pArt = pc.v]
             ELSE IF pc.ctype = CLASS_RULER THEN [r EXCEPT !.pRuler = pc.v]
             ELSE IF pc.ctype = CLASS_GRAPH THEN [r EXCEPT !.pGraph = pc.v]
             ELSE IF pc.ctype = CLASS_CHANNEL THEN [r EXCEPT !.ch = pc.v]
             ELSE IF pc.ctype = CLASS_RELEASE THEN [r EXCEPT !.release = pc.v]
             ELSE [r EXCEPT !.after = pc.v],
             i - 1)
    ELSE runPipe_back(pn, r, i - 1)

runPipe_firstWins(pn) ==
  runPipe_back(pn, [pArt |-> m_def_art, pRuler |-> m_def_ruler,
                    pGraph |-> m_def_graph, ch |-> 1, release |-> -1,
                    after |-> 0], Len(m_pipe))

runPipe(pn) ==
  runPipe_from(pn, [pArt |-> m_def_art, pRuler |-> m_def_ruler,
                    pGraph |-> m_def_graph, ch |-> 1, release |-> -1,
                    after |-> 0], 1)

\* the IR_EVENT of a deleted note
DeletedEvent ==
  [eid |-> -1, t |-> 0, dur |-> 0, key |-> 0, ch |-> 0, release |-> 0,
   after |-> 0, pg |-> <<>>]

\* importNotes raises an error on note pn
importNotes_raises(pn) ==
  /\ pn.dur # 0
  /\ \/ pn.t < 0
     \/ pn.t > INT32_MAX \div 8
     \/ (pn.dur > 0) /\ art_transform_overflows(runPipe(pn).pArt, pn.dur)
     \/ (pn.dur < 0) /\ ruler_pos_overflows(runPipe(pn).pRuler, pn.t * 8,
                                            pn.dur)

\* importNotes, the event of one note; unique is the event ID it is given
importNotes_event(pn, unique) ==
  IF pn.dur = 0 THEN DeletedEvent
  ELSE
    LET r == runPipe(pn)
    IN  [eid |-> unique,
         t |-> IF pn.dur > 0 THEN pn.t * 8
               ELSE ruler_pos(r.pRuler, pn.t * 8, pn.dur),
         dur |-> IF pn.dur > 0 THEN art_transform(r.pArt, pn.dur)
                 ELSE ruler_dur(r.pRuler),
         key |-> pn.pitch + 60, ch |-> r.ch, release |-> r.release,
         after |-> r.after, pg |-> r.pGraph]

\* importNotes: the buffer of events of the notes pd[i..], or the error
RECURSIVE importNotes(_, _, _)
importNotes(pd, i, unique) ==
  IF i > Len(pd) THEN [buf |-> <<>>, err |-> "none"]
  ELSE IF importNotes_raises(pd[i]) THEN [buf |-> <<>>, err |-> "Overflow"]
  ELSE
    LET rest == importNotes(pd, i + 1,
                            IF pd[i].dur = 0 THEN unique ELSE unique + 1)
    IN  [buf |-> <<importNotes_event(pd[i], unique + 1)>> \o rest.buf,
         err |-> rest.err]

\* the assembler's event state while render_nmf runs
Asm(unique, filled, lower, upper, moment, err) ==
  [unique |-> unique, filled |-> filled, lower |-> lower, upper |-> upper,
   moment |-> moment, err |-> err]

\* midi_message(t, 0, ch, msg, idx, val) for the two-data-byte messages
\* render.c sends, applied to the assembler state M
render_message(M, t, ch, msg, idx, val) ==
  IF M.err # "none" THEN M
  ELSE IF m_compiled = 1 THEN [M EXCEPT !.err = "Compiled"]
  ELSE IF (ch < 1) \/ (ch > MIDI_CH_MAX) \/ (idx < 0) \/ (idx > MIDI_DATA_MAX)
          \/ (val < 0) \/ (val > MIDI_DATA_MAX)
    THEN [M EXCEPT !.err = "Range"]
  ELSE
    LET r == eventRange(t, M.filled, M.lower, M.upper)
    IN  Asm(M.unique + 1, r[1], r[2], r[3],
            Append(M.moment, [eid |-> M.unique + 1, t |-> t,
                              sel |-> addMsg2(msg * 16 + (ch - 1), idx, val)]),
            "none")

\* afterTrack for each change graph_track reports, from index i on
RECURSIVE afterTrack_all(_, _, _, _)
afterTrack_all(M, pe, calls, i) ==
  IF (i > Len(calls)) \/ (M.err # "none") THEN M
  ELSE IF (calls[i].v < 1) \/ (calls[i].v > MIDI_DATA_MAX)
    THEN [M EXCEPT !.err = "Range"]
  ELSE afterTrack_all(
         render_message(M, calls[i].t, pe.ch, MIDI_MSG_POLY_AFTERTOUCH,
                        pe.key, calls[i].v),
         pe, calls, i + 1)

\* render_nmf, the moment offset of a note's release with the release moved
\* to the end of the moment
release_moment_end(pe) == pointer_pack(pe.t + pe.dur, 2)

\* render_nmf, the moment offset of a note's release
release_moment(pe) == pointer_pack(pe.t + pe.dur, 0)

\* render_nmf, the body of the loop for an event that is not deleted
render_event(M, pe) ==
  LET t == pointer_pack(pe.t, 1)
      v == graph_query(pe.pg, t)
      M1 == render_message(M, t, pe.ch, MIDI_MSG_NOTE_ON, pe.key, v)
      t_end == release_moment(pe)
      M2 == IF pe.release < 0
              THEN render_message(M1, t_end, pe.ch, MIDI_MSG_NOTE_ON,
                                  pe.key, 0)
            ELSE render_message(M1, t_end, pe.ch, MIDI_MSG_NOTE_OFF, pe.key,
                                pe.release)
      a_t == pointer_pack(pe.t + 1, 0)
      a_end == pointer_pack((pe.t + pe.dur) - 1, 2)
  IN  IF pointer_pack_overflows(pe.t, 1) THEN [M EXCEPT !.err = "Overflow"]
      ELSE IF (v < 1) \/ (v > MIDI_DATA_MAX) THEN [M EXCEPT !.err = "Range"]
      ELSE IF M1.err # "none" THEN M1
      ELSE IF pe.t > INT32_MAX - pe.dur THEN [M1 EXCEPT !.err = "Overflow"]
      ELSE IF pointer_pack_overflows(pe.t + pe.dur, 0)
        THEN [M1 EXCEPT !.err = "Overflow"]
      ELSE IF t_end <= t THEN [M1 EXCEPT !.err = "Internal"]
      ELSE IF M2.err # "none" THEN M2
      ELSE IF (pe.after # 0) /\ (pe.dur >= 2) THEN
        IF graph_track_raises(a_t, a_end, v, 1, 1)
          THEN [M2 EXCEPT !.err = "Internal"]
        ELSE afterTrack_all(M2, pe,
                            graph_track(pe.pg, a_t, a_end, v, 1, 1), 1)
      ELSE M2

\* render_nmf, the loop over the events from index i on (keyboard() is
\* commented out in the source and is not run between import and loop)
RECURSIVE render_loop(_, _, _)
render_loop(M, buf, i) ==
  IF (i > Len(buf)) \/ (M.err # "none") THEN M
  ELSE IF buf[i].eid < 0 THEN render_loop(M, buf, i + 1)
  ELSE render_loop(render_event(M, buf[i]), buf, i + 1)

\* raiseErr: the error ends the process
RenderFail(e) ==
  /\ render_err' = e
  /\ UNCHANGED <<m_render, m_pipe, m_buf, nmf_pd>>

\* render_classify_art, _ruler, _graph, _channel, _release, _aftertouch:
\* raises is the range check of the last three
render_classify_unchecked(pSect, pLayer, pArt, ctype, v, raises) ==
  /\ render_err = "none"
  /\ midi_err = "none"
  /\ IF raises THEN RenderFail("Range")
     ELSE IF Len(m_pipe) + 1 > PIPE_MAX_CAP THEN RenderFail("Capacity")
     ELSE /\ m_pipe' = Append(m_pipe,
                         [pSect |-> pSect, pLayer |-> pLayer, pArt |-> pArt,
                          ctype |-> ctype, v |-> v])
          /\ UNCHANGED <<m_render, m_buf, render_err, nmf_pd>>

render_classify(pSect, pLayer, pArt, ctype, v, raises) ==
  /\ render_err = "none"
  /\ midi_err = "none"
  /\ IF m_render = 1 THEN RenderFail("Rendered")
     ELSE IF raises THEN RenderFail("Range")
     ELSE IF Len(m_pipe) + 1 > PIPE_MAX_CAP THEN RenderFail("Capacity")
     ELSE /\ m_pipe' = Append(m_pipe,
                         [pSect |-> pSect, pLayer |-> pLayer, pArt |-> pArt,
                          ctype |-> ctype, v |-> v])
          /\ UNCHANGED <<m_render, m_buf, render_err, nmf_pd>>

render_classify_art(pSect, pLayer, pArt, pVal) ==
  render_classify(pSect, pLayer, pArt, CLASS_ART, pVal, FALSE)

render_classify_ruler(pSect, pLayer, pArt, pVal) ==
  render_classify(pSect, pLayer, pArt, CLASS_RULER, pVal, FALSE)

render_classify_graph(pSect, pLayer, pArt, pVal) ==
  render_classify(pSect, pLayer, pArt, CLASS_GRAPH, pVal, FALSE)

render_classify_channel(pSect, pLayer, pArt, val) ==
  render_classify(pSect, pLayer, pArt, CLASS_CHANNEL, val,
                  (val < 1) \/ (val > MIDI_CH_MAX))

render_classify_release(pSect, pLayer, pArt, val) ==
  render_classify(pSect, pLayer, pArt, CLASS_RELEASE, val,
                  (val < -1) \/ (val > MIDI_DATA_MAX))

render_classify_aftertouch(pSect, pLayer, pArt, val) ==
  render_classify(pSect, pLayer, pArt, CLASS_AFTERTOUCH, val,
                  (val # 0) /\ (val # 1))

render_nmf(pd) ==
  /\ render_err = "none"
  /\ midi_err = "none"
  /\ IF m_render = 1 THEN RenderFail("Rendered") /\ UNCHANGED midiVars
     ELSE
       LET imp == importNotes(pd, 1, 0)
           M == render_loop(Asm(m_unique, m_filled, m_lower, m_upper,
                                m_moment, "none"), imp.buf, 1)
       IN  IF imp.err # "none"
             THEN RenderFail(imp.err) /\ UNCHANGED midiVars
           ELSE IF M.err # "none" THEN RenderFail(M.err) /\ UNCHANGED midiVars
           ELSE /\ m_render' = 1
                /\ m_buf' = imp.buf
                /\ m_unique' = M.unique
                /\ m_filled' = M.filled
                /\ m_lower' = M.lower
                /\ m_upper' = M.upper
                /\ m_moment' = M.moment
                /\ range_hist' = range_hist \cup
                     {pointer_unpack(M.moment[i].t) :
                        i \in (Len(m_moment) + 1)..Len(M.moment)}
                /\ nmf_pd' = pd
                /\ UNCHANGED <<m_pipe, render_err, m_compiled, m_head,
                               out_file, midi_err>>

\* keyboard(), the keyboard process of render.c, one step for each pass
\* through the head of its outer and of its inner loop; m_buf is indexed
\* from 1, i and j count from 0 as in the source
keyboardVars == <<kb>>

KeyboardInit == kb = [pc |-> "idle", i |-> 0, j |-> 0]

cmpEvent(e1, e2) ==
  IF (e1.eid < 0) /\ (e2.eid >= 0) THEN 1
  ELSE IF (e1.eid >= 0) /\ (e2.eid < 0) THEN -1
  ELSE IF e1.eid < 0 THEN 0
  ELSE IF e1.ch < e2.ch THEN -1
  ELSE IF e1.ch > e2.ch THEN 1
  ELSE IF e1.key < e2.key THEN -1
  ELSE IF e1.key > e2.key THEN 1
  ELSE IF e1.t < e2.t THEN -1
  ELSE IF e1.t > e2.t THEN 1
  ELSE IF e1.dur > e2.dur THEN -1
  ELSE IF e1.dur < e2.dur THEN 1
  ELSE IF e1.eid > e2.eid THEN -1
  ELSE IF e1.eid < e2.eid THEN 1
  ELSE 0

\* qsort(m_buf, m_buf_len, sizeof(IR_EVENT), &cmpEvent): events that compare
\* equal are deleted events, which importNotes fills alike
RECURSIVE qsortEvents_insert(_, _)
qsortEvents_insert(sorted, e) ==
  IF sorted = <<>> THEN <<e>>
  ELSE IF cmpEvent(e, Head(sorted)) <= 0 THEN <<e>> \o sorted
  ELSE <<Head(sorted)>> \o qsortEvents_insert(Tail(sorted), e)

RECURSIVE qsortEvents(_)
qsortEvents(buf) ==
  IF buf = <<>> THEN <<>>
  ELSE qsortEvents_insert(qsortEvents(Front(buf)), Last(buf))

overlaps_raises(t1, dur, t2) == (dur < 1) \/ (t2 <= t1)

overlaps(t1, dur, t2) ==
  IF t1 <= INT32_MAX - dur THEN t1 + dur > t2 ELSE FALSE

\* keyboard is entered with buf in the event buffer
keyboard_enter(buf) ==
  /\ render_err = "none"
  /\ kb.pc = "idle"
  /\ IF Len(buf) > 1
       THEN /\ m_buf' = qsortEvents(buf)
            /\ kb' = [pc |-> "outer", i |-> 0, j |-> 0]
       ELSE /\ m_buf' = buf
            /\ kb' = [pc |-> "done", i |-> 0, j |-> 0]
  /\ UNCHANGED <<m_render, m_pipe, render_err, nmf_pd>>

\* for(i = 0; i < m_buf_len; i++): the test and the start of the inner loop
keyboard_outer ==
  /\ render_err = "none"
  /\ kb.pc = "outer"
  /\ IF kb.i >= Len(m_buf) THEN kb' = [kb EXCEPT !.pc = "done"]
     ELSE IF m_buf[kb.i + 1].eid < 0 THEN kb' = [kb EXCEPT !.pc = "done"]
     ELSE kb' = [kb EXCEPT !.pc = "inner", !.j = kb.i + 1]
  /\ UNCHANGED renderVars

\* for(j = i + 1; j < m_buf_len; j++): one pass; when the loop is left,
\* i = j - 1 and the i++ of the outer loop
keyboard_inner ==
  /\ render_err = "none"
  /\ kb.pc = "inner"
  /\ LET i == kb.i + 1
         j == kb.j + 1
     IN  IF kb.j >= Len(m_buf)
           THEN /\ kb' = [kb EXCEPT !.pc = "outer", !.i = (kb.j - 1) + 1]
                /\ UNCHANGED renderVars
         ELSE IF \/ m_buf[j].eid < 0
                 \/ m_buf[j].ch # m_buf[i].ch
                 \/ m_buf[j].key # m_buf[i].key
           THEN /\ kb' = [kb EXCEPT !.pc = "outer", !.i = (kb.j - 1) + 1]
                /\ UNCHANGED renderVars
         ELSE IF m_buf[j].t = m_buf[i].t
           THEN /\ m_buf' = [m_buf EXCEPT ![j].eid = -1]
                /\ kb' = [kb EXCEPT !.j = kb.j + 1]
                /\ UNCHANGED <<m_render, m_pipe, render_err, nmf_pd>>
         ELSE IF overlaps_raises(m_buf[i].t, m_buf[i].dur, m_buf[j].t)
           THEN /\ render_err' = "Internal"
                /\ UNCHANGED <<m_render, m_pipe, m_buf, nmf_pd, kb>>
         ELSE /\ m_buf' =
                   IF overlaps(m_buf[i].t, m_buf[i].dur, m_buf[j].t)
                     THEN [m_buf EXCEPT ![i].dur = m_buf[j].t - m_buf[i].t]
                   ELSE m_buf
              /\ kb' = [pc |-> "outer", i |-> ((kb.j - 1) - 1) + 1,
                        j |-> kb.j - 1]
              /\ UNCHANGED <<m_render, m_pipe, render_err, nmf_pd>>

(***************************************************************************)
(* control.c : the controller map, control_auto and control_track          *)
(*                                                                         *)
(* A GRAPH pointer is modelled by the table of the graph it points to, the *)
(* null pointer by the empty table.  m_map is indexed from 1; the indices  *)
(* seekMap computes count from 0 as in the source.                         *)
(***************************************************************************)
CONTROL_TYPE_TEMPO == 1

CONTROL_TYPE_7BIT == 2

CONTROL_TYPE_14BIT == 3

CONTROL_TYPE_NONREG == 4

CONTROL_TYPE_REG == 5

CONTROL_TYPE_PRESSURE == 6

CONTROL_TYPE_PITCH == 7

CONTROL_TYPE_MIN == 1

CONTROL_TYPE_MAX == 7

CONTROL_MAX_14BIT == 16383

CONTROL_INDEX_DATA == 6

CONTROL_INDEX_14BIT_MIN == 1

CONTROL_INDEX_14BIT_MAX == 31

CONTROL_INDEX_7BIT_1_MIN == 64

CONTROL_INDEX_7BIT_1_MAX == 95

CONTROL_INDEX_7BIT_2_MIN == 102

CONTROL_INDEX_7BIT_2_MAX == 119

MAP_MAX_CAP == 16384

MIDI_TEMPO_MIN == 1

MIDI_TEMPO_MAX == 16777215

NullGraph == <<>>

MapInit ==
  /\ m_map = <<>>
  /\ map_hist = [regs |-> {}, over |-> 0]
  /\ track_hist = [calls |-> 0, filled |-> 0, lower |-> 0, upper |-> 0,
                   unique |-> 0]

CTL_MAP(ctype, ch, idx, pg) ==
  [ctype |-> ctype, ch |-> ch, idx |-> idx, pg |-> pg]

\* seekMap, the comparison of the key sought with a record
seekMap_cmp(ctype, ch, idx, r) ==
  IF ctype < r.ctype THEN -1
  ELSE IF ctype > r.ctype THEN 1
  ELSE IF ch < r.ch THEN -1
  ELSE IF ch > r.ch THEN 1
  ELSE IF idx < r.idx THEN -1
  ELSE IF idx > r.idx THEN 1
  ELSE 0

\* seekMap, the loop that zooms in on a single element
RECURSIVE seekMap_zoom(_, _, _, _, _)
seekMap_zoom(lo, hi, ctype, ch, idx) ==
  IF lo >= hi THEN lo
  ELSE
    LET m0 == lo + CDiv(hi - lo, 2)
        mid == IF m0 >= hi THEN hi - 1 ELSE m0
        c == seekMap_cmp(ctype, ch, idx, m_map[mid + 1])
    IN  IF c > 0 THEN seekMap_zoom(mid + 1, hi, ctype, ch, idx)
        ELSE IF c < 0 THEN seekMap_zoom(lo, mid, ctype, ch, idx)
        ELSE mid

\* seekMap that takes the element chosen only when the key is less than it
seekMap_less(ctype, ch, idx) ==
  IF Len(m_map) > 0
    THEN LET lo == seekMap_zoom(0, Len(m_map) - 1, ctype, ch, idx)
         IN  IF seekMap_cmp(ctype, ch, idx, m_map[lo + 1]) < 0
               THEN lo ELSE -1
    ELSE -1

\* seekMap: index of the least record greater than or equal to the key, -1
\* when there is none
seekMap(ctype, ch, idx) ==
  IF Len(m_map) > 0
    THEN LET lo == seekMap_zoom(0, Len(m_map) - 1, ctype, ch, idx)
         IN  IF seekMap_cmp(ctype, ch, idx, m_map[lo + 1]) <= 0
               THEN lo ELSE -1
    ELSE -1

\* control_auto, "Set unused key fields to zero"
control_auto_ch(ctype, ch) == IF ctype = CONTROL_TYPE_TEMPO THEN 0 ELSE ch

control_auto_idx(ctype, idx) ==
  IF ctype \in {CONTROL_TYPE_7BIT, CONTROL_TYPE_14BIT, CONTROL_TYPE_NONREG,
                CONTROL_TYPE_REG}
    THEN idx ELSE 0

\* control_auto, the parameter checks: the error raised, or "none"
control_auto_check(ctype, ch, idx, pg) ==
  IF (ctype < CONTROL_TYPE_MIN) \/ (ctype > CONTROL_TYPE_MAX)
    THEN "Internal"
  ELSE IF (ctype # CONTROL_TYPE_TEMPO) /\ ((ch < 1) \/ (ch > MIDI_CH_MAX))
    THEN "Channel"
  ELSE IF (ctype = CONTROL_TYPE_7BIT)
          /\ ((idx < CONTROL_INDEX_7BIT_1_MIN)
                \/ (idx > CONTROL_INDEX_7BIT_1_MAX))
          /\ ((idx < CONTROL_INDEX_7BIT_2_MIN)
                \/ (idx > CONTROL_INDEX_7BIT_2_MAX))
    THEN "Index"
  ELSE IF (ctype = CONTROL_TYPE_14BIT)
          /\ ((idx < CONTROL_INDEX_14BIT_MIN)
                \/ (idx > CONTROL_INDEX_14BIT_MAX)
                \/ (idx = CONTROL_INDEX_DATA))
    THEN "Index"
  ELSE IF (ctype \in {CONTROL_TYPE_NONREG, CONTROL_TYPE_REG})
          /\ ((idx < 0) \/ (idx > CONTROL_MAX_14BIT))
    THEN "Index"
  ELSE IF pg = NullGraph THEN "Internal"
  ELSE "none"

\* the history of control_auto as control.h documents it: one graph per
\* controller, the new graph overwriting the old
map_hist_auto(ctype, ch, idx, pg) ==
  LET k == CTL_MAP(ctype, control_auto_ch(ctype, ch),
                   control_auto_idx(ctype, idx), pg)
      same == {r \in map_hist.regs :
                 (r.ctype = k.ctype) /\ (r.ch = k.ch) /\ (r.idx = k.idx)}
  IN  [regs |-> (map_hist.regs \ same) \cup {k},
       over |-> IF same # {} THEN 1 ELSE map_hist.over]

control_auto(ctype, ch0, idx0, pg) ==
  /\ control_err = "none"
  /\ IF control_auto_check(ctype, ch0, idx0, pg) # "none"
       THEN /\ ControlFail(control_auto_check(ctype, ch0, idx0, pg))
            /\ UNCHANGED mapVars
       ELSE
         LET ch == control_auto_ch(ctype, ch0)
             idx == control_auto_idx(ctype, idx0)
             i == seekMap(ctype, ch, idx)
             eq == (i >= 0) /\ (m_map[i + 1].ctype = ctype)
                     /\ (m_map[i + 1].ch = ch) /\ (m_map[i + 1].idx = idx)
         IN  IF (i < 0) \/ ~eq
               THEN IF Len(m_map) + 1 > MAP_MAX_CAP
                      THEN ControlFail("Capacity") /\ UNCHANGED mapVars
                      ELSE /\ m_map' =
                                IF i < 0
                                  THEN Append(m_map,
                                              CTL_MAP(ctype, ch, idx, pg))
                                  ELSE SubSeq(m_map, 1, i)
                                         \o <<CTL_MAP(ctype, ch, idx, pg)>>
                                         \o SubSeq(m_map, i + 1, Len(m_map))
                           /\ map_hist' =
                                map_hist_auto(ctype, ch0, idx0, pg)
                           /\ UNCHANGED <<track_hist, controlVars, midiVars>>
               ELSE /\ m_map' = [m_map EXCEPT ![i + 1].pg = pg]
                    /\ map_hist' = map_hist_auto(ctype, ch0, idx0, pg)
                    /\ UNCHANGED <<track_hist, controlVars, midiVars>>

\* midi_tempo(t, 0, val) applied to the assembler state M
track_tempo(M, t, val) ==
  IF M.err # "none" THEN M
  ELSE IF m_compiled = 1 THEN [M EXCEPT !.err = "Compiled"]
  ELSE IF (val < MIDI_TEMPO_MIN) \/ (val > MIDI_TEMPO_MAX)
    THEN [M EXCEPT !.err = "Range"]
  ELSE
    LET r == eventRange(t, M.filled, M.lower, M.upper)
    IN  Asm(M.unique + 1, r[1], r[2], r[3],
            Append(M.moment,
                   [eid |-> M.unique + 1, t |-> t,
                    sel |-> addMsgMD(255, 81,
                              <<(val \div 65536) % 256, (val \div 256) % 256,
                                val % 256>>)]),
            "none")

\* midi_message(t, 0, ch, msg, idx, val) applied to the assembler state M,
\* for the three kinds of message trackCtl sends
track_message(M, t, ch, msg, idx, val) ==
  IF M.err # "none" THEN M
  ELSE IF msg = MIDI_MSG_CONTROL THEN render_message(M, t, ch, msg, idx, val)
  ELSE IF m_compiled = 1 THEN [M EXCEPT !.err = "Compiled"]
  ELSE IF (ch < 1) \/ (ch > MIDI_CH_MAX) THEN [M EXCEPT !.err = "Range"]
  ELSE IF (msg = MIDI_MSG_CH_AFTERTOUCH)
          /\ ((val < 0) \/ (val > MIDI_DATA_MAX))
    THEN [M EXCEPT !.err = "Range"]
  ELSE IF (msg = MIDI_MSG_PITCH_BEND)
          /\ ((val < 0) \/ (val > MIDI_WIDE_MAX))
    THEN [M EXCEPT !.err = "Range"]
  ELSE
    LET r == eventRange(t, M.filled, M.lower, M.upper)
        status == msg * 16 + (ch - 1)
    IN  Asm(M.unique + 1, r[1], r[2], r[3],
            Append(M.moment,
                   [eid |-> M.unique + 1, t |-> t,
                    sel |-> IF msg = MIDI_MSG_CH_AFTERTOUCH
                              THEN addMsg1(status, val)
                              ELSE addMsg2(status, val % 128,
                                           (val \div 128) % 128)]),
            "none")

\* trackCtl, the four messages of a non-registered (first 0x62) or
\* registered (first 0x64) parameter, data bytes before the parameter index
trackCtl_param_dataFirst(M, pe, t, v, first) ==
  LET a == (v \div 128) % 128
      b == v % 128
      ia == (pe.idx \div 128) % 128
      ib == pe.idx % 128
      M1 == track_message(M, t, pe.ch, MIDI_MSG_CONTROL, 6, a)
      M2 == track_message(M1, t, pe.ch, MIDI_MSG_CONTROL, 38, b)
      M3 == track_message(M2, t, pe.ch, MIDI_MSG_CONTROL, first, ib)
  IN  track_message(M3, t, pe.ch, MIDI_MSG_CONTROL, first + 1, ia)

\* trackCtl, the four messages of a non-registered (first 0x62) or
\* registered (first 0x64) parameter
trackCtl_param(M, pe, t, v, first) ==
  LET a == (v \div 128) % 128
      b == v % 128
      ia == (pe.idx \div 128) % 128
      ib == pe.idx % 128
      M1 == track_message(M, t, pe.ch, MIDI_MSG_CONTROL, first, ib)
      M2 == track_message(M1, t, pe.ch, MIDI_MSG_CONTROL, first + 1, ia)
      M3 == track_message(M2, t, pe.ch, MIDI_MSG_CONTROL, 6, a)
  IN  track_message(M3, t, pe.ch, MIDI_MSG_CONTROL, 38, b)

\* trackCtl: the callback of graph_track, applied to the assembler state M;
\* its own range errors are "GraphValue"
trackCtl(M, pe, t, v) ==
  IF M.err # "none" THEN M
  ELSE IF pe.ctype = CONTROL_TYPE_TEMPO
    THEN IF (v < MIDI_TEMPO_MIN) \/ (v > MIDI_TEMPO_MAX)
           THEN [M EXCEPT !.err = "GraphValue"]
           ELSE track_tempo(M, t, v)
  ELSE IF pe.ctype = CONTROL_TYPE_7BIT
    THEN IF (v < 0) \/ (v > MIDI_DATA_MAX)
           THEN [M EXCEPT !.err = "GraphValue"]
           ELSE track_message(M, t, pe.ch, MIDI_MSG_CONTROL, pe.idx, v)
  ELSE IF pe.ctype = CONTROL_TYPE_14BIT
    THEN IF (v < 0) \/ (v > CONTROL_MAX_14BIT)
           THEN [M EXCEPT !.err = "GraphValue"]
           ELSE track_message(
                  track_message(M, t, pe.ch, MIDI_MSG_CONTROL, pe.idx,
                                (v \div 128) % 128),
                  t, pe.ch, MIDI_MSG_CONTROL, pe.idx + 32, v % 128)
  ELSE IF pe.ctype = CONTROL_TYPE_NONREG
    THEN IF (v < 0) \/ (v > CONTROL_MAX_14BIT)
           THEN [M EXCEPT !.err = "GraphValue"]
           ELSE trackCtl_param(M, pe, t, v, 98)
  ELSE IF pe.ctype = CONTROL_TYPE_REG
    THEN IF (v < 0) \/ (v > CONTROL_MAX_14BIT)
           THEN [M EXCEPT !.err = "GraphValue"]
           ELSE trackCtl_param(M, pe, t, v, 100)
  ELSE IF pe.ctype = CONTROL_TYPE_PRESSURE
    THEN IF (v < 0) \/ (v > MIDI_DATA_MAX)
           THEN [M EXCEPT !.err = "GraphValue"]
           ELSE track_message(M, t, pe.ch, MIDI_MSG_CH_AFTERTOUCH, 0, v)
  ELSE IF pe.ctype = CONTROL_TYPE_PITCH
    THEN IF (v < 0) \/ (v > CONTROL_MAX_14BIT)
           THEN [M EXCEPT !.err = "GraphValue"]
           ELSE track_message(M, t, pe.ch, MIDI_MSG_PITCH_BEND, 0, v)
  ELSE [M EXCEPT !.err = "Internal"]

\* graph_track calling trackCtl for each change it reports, from index i on
RECURSIVE trackCtl_all(_, _, _, _)
trackCtl_all(M, pe, calls, i) ==
  IF (i > Len(calls)) \/ (M.err # "none") THEN M
  ELSE trackCtl_all(trackCtl(M, pe, calls[i].t, calls[i].v), pe, calls,
                    i + 1)

\* control_track, the end of the range tracked placed at the start of the
\* last moment of the event range
control_track_end_start(upper) == pointer_pack(upper, 0)

\* control_track, the end of the range tracked
control_track_end(upper) == pointer_pack(upper, 2)

\* control_track, the loop over the map with every graph tracked to its
\* last node, whatever the end of the range
RECURSIVE control_track_loop_noEnd(_, _, _, _)
control_track_loop_noEnd(M, i, track_start, track_end) ==
  IF (i > Len(m_map)) \/ (M.err # "none") THEN M
  ELSE control_track_loop_noEnd(
         trackCtl_all(M, m_map[i],
                      graph_track(m_map[i].pg, track_start, track_end, 0, 0,
                                  0),
                      1),
         i + 1, track_start, track_end)

\* control_track, the loop over the map from record i (counted from 1) on
RECURSIVE control_track_loop(_, _, _, _)
control_track_loop(M, i, track_start, track_end) ==
  IF (i > Len(m_map)) \/ (M.err # "none") THEN M
  ELSE control_track_loop(
         trackCtl_all(M, m_map[i],
                      graph_track(m_map[i].pg, track_start, track_end, 0, 1,
                                  0),
                      1),
         i + 1, track_start, track_end)

control_track ==
  /\ control_err = "none"
  /\ midi_err = "none"
  /\ track_hist' = [calls |-> track_hist.calls + 1, filled |-> m_filled,
                    lower |-> m_lower, upper |-> m_upper,
                    unique |-> m_unique]
  /\ UNCHANGED <<m_map, map_hist>>
  /\ IF m_compiled = 1 THEN MidiFail("Compiled") /\ UNCHANGED controlVars
     ELSE IF pointer_pack_overflows(m_lower, 0)
             \/ pointer_pack_overflows(m_upper, 2)
       THEN ControlFail("Overflow")
     ELSE
       \E M \in {control_track_loop(
                  Asm(m_unique, m_filled, m_lower, m_upper, m_moment,
                      "none"),
                  1, pointer_pack(m_lower, 0), control_track_end(m_upper))} :
           /\ m_unique' = M.unique
           /\ m_filled' = M.filled
           /\ m_lower' = M.lower
           /\ m_upper' = M.upper
           /\ m_moment' = M.moment
           /\ range_hist' = range_hist
                \cup {pointer_unpack(M.moment[k].t) :
                        k \in (Len(m_moment) + 1)..Len(M.moment)}
           /\ control_err' = IF M.err \in {"GraphValue", "Internal"}
                               THEN M.err ELSE "none"
           /\ midi_err' = IF M.err \in {"GraphValue", "Internal", "none"}
                            THEN "none" ELSE M.err
           /\ UNCHANGED <<m_compiled, m_head, out_file>>

(***************************************************************************)
(* pointer.c : the pointer object                                          *)
(*                                                                         *)
(* One POINTER, made by pointer_new after pointer_init.  gr holds the      *)
(* ruler [slot, gap] or NoRuler for NULL.  The NMF data the module was     *)
(* initialised with is the list of the quantum offsets of its sections.    *)
(***************************************************************************)
pointerVars == <<ptr, pointer_err, ptr_res, codec>>

NoRuler == [slot |-> 0, gap |-> 0]

\* the fields pointer_new and pointer_reset give a pointer
HeaderPointer ==
  [head |-> 1, sect |-> 0, offs |-> 0, g |-> 0, gr |-> NoRuler, tilt |-> 0,
   m |-> 0]

NoCall == [fn |-> "none", val |-> 0]

NoCodec == [pc |-> "start", m |-> 0, s |-> 0, p |-> 0, r |-> 0]

\* nmf_offset(m_pd, i) for the sections i = 0 .. nmf_sections(m_pd) - 1
SectionOffsets == <<0, 96, 268435450>>

nmf_sections == Len(SectionOffsets)

nmf_offset(sect) == SectionOffsets[sect + 1]

PointerInit ==
  /\ ptr = HeaderPointer
  /\ pointer_err = "none"
  /\ ptr_res = NoCall
  /\ codec = NoCodec

\* raiseErr: the error ends the process
PointerFail(fn, e) ==
  /\ pointer_err' = e
  /\ ptr_res' = [fn |-> fn, val |-> 0]
  /\ UNCHANGED ptr

PointerSet(fn, pp) ==
  /\ ptr' = pp
  /\ ptr_res' = [fn |-> fn, val |-> 0]
  /\ UNCHANGED pointer_err

pointer_reset ==
  /\ pointer_err = "none"
  /\ IF m_shutdown.pointer # 0 THEN PointerFail("reset", "Shutdown")
     ELSE PointerSet("reset", HeaderPointer)

\* pointer_jump that gives every pointer the middle of the moment
pointer_jump_middle(sect) ==
  /\ pointer_err = "none"
  /\ IF m_shutdown.pointer # 0 THEN PointerFail("jump", "Shutdown")
     ELSE IF sect < 0 THEN PointerFail("jump", "Section")
     ELSE PointerSet("jump", [head |-> 0, sect |-> sect, offs |-> 0, g |-> 0,
                              gr |-> NoRuler, tilt |-> 0, m |-> 0])

pointer_jump(sect) ==
  /\ pointer_err = "none"
  /\ IF m_shutdown.pointer # 0 THEN PointerFail("jump", "Shutdown")
     ELSE IF sect < 0 THEN PointerFail("jump", "Section")
     ELSE PointerSet("jump",
            [head |-> 0, sect |-> sect, offs |-> 0, g |-> 0, gr |-> NoRuler,
             tilt |-> 0, m |-> IF ptr.head # 0 THEN 0 ELSE ptr.m])

\* the body of pointer_seek, entered from fn
pointer_seek_from(fn, offs) ==
  IF ptr.head # 0 THEN PointerFail(fn, "Header")
  ELSE PointerSet(fn, [ptr EXCEPT !.offs = offs, !.g = 0, !.gr = NoRuler,
                                  !.tilt = 0])

\* pointer_seek that moves a header pointer as well
pointer_seek_any(offs) ==
  /\ pointer_err = "none"
  /\ IF m_shutdown.pointer # 0 THEN PointerFail("seek", "Shutdown")
     ELSE
     PointerSet("seek", [ptr EXCEPT !.offs = offs, !.g = 0, !.gr = NoRuler,
                                    !.tilt = 0])

pointer_seek(offs) ==
  /\ pointer_err = "none"
  /\ IF m_shutdown.pointer # 0 THEN PointerFail("seek", "Shutdown")
     ELSE pointer_seek_from("seek", offs)

pointer_advance(rel) ==
  /\ pointer_err = "none"
  /\ IF m_shutdown.pointer # 0 THEN PointerFail("advance", "Shutdown")
     ELSE IF ptr.head # 0 THEN PointerFail("advance", "Header")
     ELSE IF rel >= 0
       THEN IF ptr.offs <= INT32_MAX - rel
              THEN pointer_seek_from("advance", ptr.offs + rel)
            ELSE PointerFail("advance", "Advance")
     ELSE IF ptr.offs >= INT32_MIN - rel
       THEN pointer_seek_from("advance", ptr.offs + rel)
     ELSE PointerFail("advance", "Advance")

pointer_grace(g, pr) ==
  /\ pointer_err = "none"
  /\ IF m_shutdown.pointer # 0 THEN PointerFail("grace", "Shutdown")
     ELSE IF g > 0 THEN PointerFail("grace", "Grace")
     ELSE IF (g < 0) /\ (pr = NoRuler) THEN PointerFail("grace", "Ruler")
     ELSE IF ptr.head # 0 THEN PointerFail("grace", "Header")
     ELSE PointerSet("grace",
            [ptr EXCEPT !.g = g, !.gr = IF g = 0 THEN NoRuler ELSE pr,
                        !.tilt = 0])

pointer_tilt(tilt) ==
  /\ pointer_err = "none"
  /\ IF m_shutdown.pointer # 0 THEN PointerFail("tilt", "Shutdown")
     ELSE IF ptr.head # 0 THEN PointerFail("tilt", "Header")
     ELSE PointerSet("tilt", [ptr EXCEPT !.tilt = tilt])

pointer_moment(m) ==
  /\ pointer_err = "none"
  /\ IF m_shutdown.pointer # 0 THEN PointerFail("moment", "Shutdown")
     ELSE IF (m < -1) \/ (m > 1) THEN PointerFail("moment", "Part")
     ELSE IF ptr.head # 0 THEN PointerFail("moment", "Header")
     ELSE PointerSet("moment", [ptr EXCEPT !.m = m])

pointer_isHeader ==
  /\ pointer_err = "none"
  /\ IF m_shutdown.pointer # 0 THEN PointerFail("isHeader", "Shutdown")
     ELSE /\ ptr_res' = [fn |-> "isHeader", val |-> ptr.head]
          /\ UNCHANGED <<ptr, pointer_err>>

\* pointer_shutdown: the pointer objects are freed; every function that
\* takes a pointer object tests m_shutdown before it reads the object
pointer_shutdown ==
  /\ pointer_err = "none"
  /\ shutdown_calls' = [shutdown_calls EXCEPT !.pointer = @ + 1]
  /\ IF m_shutdown.pointer # 0
       THEN UNCHANGED <<pointerVars, m_shutdown>>
       ELSE /\ m_shutdown' = [m_shutdown EXCEPT !.pointer = 1]
            /\ ptr_res' = [fn |-> "shutdown", val |-> 0]
            /\ UNCHANGED <<ptr, pointer_err, codec>>

\* a step of pointer_compute: [err, val]
Computed(val) == [err |-> "none", val |-> val]

ComputeFails(e) == [err |-> e, val |-> 0]

\* compute_add that adds the magnitude of d
compute_add_magnitude(r, d) ==
  IF r.err # "none" THEN r
  ELSE IF d >= 0
    THEN IF r.val <= INT32_MAX - d THEN Computed(r.val + d)
         ELSE ComputeFails("Overflow")
  ELSE IF (d > INT32_MIN) /\ (r.val <= INT32_MAX + d)
    THEN Computed(r.val - d)
  ELSE ComputeFails("Overflow")

\* result += d, checked
compute_add(r, d) ==
  IF r.err # "none" THEN r
  ELSE IF d >= 0
    THEN IF r.val <= INT32_MAX - d THEN Computed(r.val + d)
         ELSE ComputeFails("Overflow")
  ELSE IF r.val >= INT32_MIN - d THEN Computed(r.val + d)
  ELSE ComputeFails("Overflow")

\* result *= k, checked; INT32_MIN / k of C is 0 - (INT32_MAX \div k) here,
\* for the k = 8 and k = 3 of the code
compute_scale(r, k) ==
  IF r.err # "none" THEN r
  ELSE IF r.val >= 0
    THEN IF r.val <= INT32_MAX \div k THEN Computed(r.val * k)
         ELSE ComputeFails("Overflow")
  ELSE IF r.val >= (IF k = 8 THEN INT32_MIN \div 8
                    ELSE 0 - (INT32_MAX \div k))
    THEN Computed(r.val * k)
  ELSE ComputeFails("Overflow")

\* result = ruler_pos(pp->gr, result, pp->g), for g < 0
compute_grace(r, pp) ==
  IF (r.err # "none") \/ (pp.g >= 0) THEN r
  ELSE IF ruler_pos_overflows(pp.gr, r.val, pp.g)
    THEN ComputeFails("RulerOverflow")
  ELSE Computed(ruler_pos(pp.gr, r.val, pp.g))

\* compute_part that adds the moment part as it is stored
compute_part_stored(r, pp) ==
  IF r.err # "none" THEN r
  ELSE IF r.val <= INT32_MAX - (pp.m + 1) THEN Computed(r.val + pp.m)
  ELSE ComputeFails("Overflow")

\* result += pp->m + 1, checked against INT32_MAX only
compute_part(r, pp) ==
  IF r.err # "none" THEN r
  ELSE IF r.val <= INT32_MAX - (pp.m + 1) THEN Computed(r.val + (pp.m + 1))
  ELSE ComputeFails("Overflow")

\* the moment offset a body pointer resolves to, or the error raised
compute_value(pp) ==
  IF pp.sect >= nmf_sections THEN ComputeFails("SectionRange")
  ELSE
    compute_part(
      compute_scale(
        compute_add(
          compute_grace(
            compute_scale(
              compute_add(Computed(nmf_offset(pp.sect)), pp.offs), 8),
            pp),
          pp.tilt),
        3),
      pp)

pointer_compute ==
  /\ pointer_err = "none"
  /\ IF m_shutdown.pointer # 0 THEN PointerFail("compute", "Shutdown")
     ELSE IF ptr.head # 0 THEN PointerFail("compute", "Header")
     ELSE LET r == compute_value(ptr)
          IN  IF r.err # "none" THEN PointerFail("compute", r.err)
              ELSE /\ ptr_res' = [fn |-> "compute", val |-> r.val]
                   /\ UNCHANGED <<ptr, pointer_err>>

vars == <<coreVars, midiVars, controlVars, artVars, setVars, graphVars,
          renderVars, pointerVars, shutdownVars, keyboardVars, mapVars>>

(***************************************************************************)
(* Specifications.  Each drives one module from the state after program    *)
(* start; the other modules keep their initial state.                      *)
(***************************************************************************)
Init == CoreInit /\ MidiInit /\ ControlInit /\ ArtInit /\ SetInit
          /\ GraphInit /\ RenderInit /\ PointerInit /\ ShutdownInit
          /\ KeyboardInit /\ MapInit

notPointer == <<coreVars, midiVars, controlVars, artVars, setVars, graphVars,
               renderVars, shutdownVars, keyboardVars, mapVars>>

notCore == <<midiVars, controlVars, artVars, setVars,
  graphVars, renderVars,
  pointerVars, shutdownVars, keyboardVars, mapVars>>

notMidi == <<coreVars, controlVars, artVars, setVars,
  graphVars, renderVars,
  pointerVars, shutdownVars, keyboardVars, mapVars>>

notControl == <<coreVars, artVars, setVars,
  graphVars, renderVars,
  pointerVars, shutdownVars, keyboardVars, mapVars>>

notArt == <<coreVars, midiVars, controlVars, setVars,
  graphVars, renderVars,
  pointerVars, shutdownVars, keyboardVars, mapVars>>

notSet == <<coreVars, midiVars, controlVars, artVars, graphVars,
           renderVars,
  pointerVars, shutdownVars, keyboardVars, mapVars>>

notGraph == <<coreVars, midiVars, controlVars, artVars, setVars,
             renderVars,
  pointerVars, shutdownVars, keyboardVars, mapVars>>

notRender == <<coreVars, midiVars, controlVars, artVars, setVars,
               graphVars,
  pointerVars, shutdownVars, keyboardVars, mapVars>>

CoreNext ==
  \/ (\E v \in Values : core_push(v)) /\ UNCHANGED notCore
  \/ core_pop /\ UNCHANGED notCore
  \/ core_begin_group /\ UNCHANGED notCore
  \/ core_end_group /\ UNCHANGED notCore
  \/ (\E c \in {0, 1}, k \in Names : core_declare(c, k)) /\ UNCHANGED notCore
  \/ (\E k \in Names : core_get(k)) /\ UNCHANGED notCore
  \/ (\E k \in Names : core_assign(k)) /\ UNCHANGED notCore

SpecCore == Init /\ [][CoreNext]_vars

\* the moments the assembler is driven with: subquanta -2 .. 2
Moments == {-4, -1, 0, 1, 3, 7}

MidiNext ==
  \/ /\ Len(m_moment) < MaxEvents
     /\ \E t \in Moments : midi_message(t, 0, 1, MIDI_MSG_NOTE_ON, 60, 64)
     /\ UNCHANGED notMidi
  \/ (\E t \in Moments : midi_null(t, 0)) /\ UNCHANGED notMidi
  \/ midi_compile /\ UNCHANGED notMidi

SpecMidi == Init /\ [][MidiNext]_vars

\* every function of the assembler, header and moment events mixed, called
\* before and after midi_compile
AsmRoom == Len(m_head) + Len(m_moment) < MaxAsmEvents

AsmNext ==
  \/ /\ AsmRoom
     /\ \E a \in {<<0, 0>>, <<4, 0>>, <<30, 1>>} :
          midi_message(a[1], a[2], 1, MIDI_MSG_NOTE_ON, 60, 64)
     /\ UNCHANGED notMidi
  \/ (\E a \in {<<-1, 0>>, <<7, 0>>, <<-30, 1>>} : midi_null(a[1], a[2]))
       /\ UNCHANGED notMidi
  \/ AsmRoom /\ midi_text(-30, 1, 3, <<65, 66>>) /\ UNCHANGED notMidi
  \/ AsmRoom /\ midi_tempo(0, 0, 500000) /\ UNCHANGED notMidi
  \/ AsmRoom /\ midi_time_sig(30, 1, 3, 4, 24) /\ UNCHANGED notMidi
  \/ AsmRoom /\ midi_key_sig(30, 1, -2, 1) /\ UNCHANGED notMidi
  \/ AsmRoom /\ midi_custom(4, 0, <<9>>) /\ UNCHANGED notMidi
  \/ AsmRoom /\ midi_system(0, 0, <<1>>) /\ UNCHANGED notMidi
  \/ midi_range_lower /\ UNCHANGED notMidi
  \/ midi_range_upper /\ UNCHANGED notMidi
  \/ midi_compile /\ UNCHANGED notMidi

SpecAsm == Init /\ [][AsmNext]_vars

\* simultaneous and successive events of every status class
OrderMoments == {0, 1}

MidiOrderNext ==
  \/ /\ Len(m_moment) < MaxOrderEvents
     /\ \E t \in OrderMoments, msg \in {MIDI_MSG_NOTE_OFF, MIDI_MSG_NOTE_ON,
                                         MIDI_MSG_CONTROL} :
          midi_message(t, 0, 1, msg, 60, 0)
     /\ UNCHANGED notMidi
  \/ /\ Len(m_moment) < MaxOrderEvents
     /\ \E t \in OrderMoments : midi_message(t, 0, 1, MIDI_MSG_NOTE_ON, 60, 64)
     /\ UNCHANGED notMidi
  \/ /\ Len(m_moment) < MaxOrderEvents
     /\ \E t \in OrderMoments : midi_tempo(t, 0, 500000)
     /\ UNCHANGED notMidi
  \/ /\ Len(m_moment) < MaxOrderEvents
     /\ \E t \in OrderMoments : midi_system(t, 0, <<1>>)
     /\ UNCHANGED notMidi
  \/ midi_compile /\ UNCHANGED notMidi

SpecMidiOrder == Init /\ [][MidiOrderNext]_vars

\* time signatures, through the time_sig operation (control_time_sig) and
\* directly (midi_time_sig, as test_midi.c does)
SigPointers == {[head |-> 1, t |-> 0], [head |-> 0, t |-> 0], [head |-> 0, t |-> 3]}

SigNums == {0, 4, 256}

SigDenoms == (0..17) \cup {31, 32, 33, 64, 512, 1023, 1024, 1025, 2048}

SigMetros == {0, 24, 256}

TimeSigNext ==
  \/ /\ Len(m_head) + Len(m_moment) < MaxSigEvents
     /\ \E pp \in SigPointers, num \in SigNums, denom \in SigDenoms,
           metro \in SigMetros :
          control_time_sig(pp, num, denom, metro)
     /\ UNCHANGED notControl
  \/ /\ Len(m_head) + Len(m_moment) < MaxSigEvents
     /\ control_err = "none"
     /\ \E pp \in SigPointers, num \in SigNums, denom \in SigDenoms,
           metro \in SigMetros :
          midi_time_sig(pp.t, pp.head, num, denom, metro)
     /\ UNCHANGED <<coreVars, controlVars, artVars, setVars, graphVars,
                    renderVars, pointerVars, shutdownVars, keyboardVars, mapVars>>

SpecTimeSig == Init /\ [][TimeSigNext]_vars

\* articulations of every scale, with bumpers and gaps on both sides of the
\* durations, and durations on both sides of INT32_MAX / 8
ArtBumpers == {-1, 0, 1, 8, 20, 300000000}

ArtGaps == {1, 0, -4, -8, -20}

ArtDurs == {0, 1, 2, 3, 268435455, 268435456}

ArtNext ==
  \/ /\ Len(art_store) < MaxArts
     /\ \E num \in 0..9, denom \in {1, 2, 3, 4, 8}, bumper \in ArtBumpers,
           gap \in ArtGaps :
          art_new(num, denom, bumper, gap)
     /\ UNCHANGED notArt
  \/ /\ \E i \in 1..Len(art_store), dur \in ArtDurs :
          art_transform_call(i, dur)
     /\ UNCHANGED notArt

SpecArt == Init /\ [][ArtNext]_vars

\* range bounds on both sides of each other, with the invalid -1
SetVals == {-1, 0, 1, 2}

SetNext ==
  \/ set_begin /\ UNCHANGED notSet
  \/ set_all /\ UNCHANGED notSet
  \/ set_none /\ UNCHANGED notSet
  \/ set_invert /\ UNCHANGED notSet
  \/ /\ \E lo \in SetVals, hi \in SetVals, exc \in BOOLEAN :
          SetRclose(lo, hi, exc)
     /\ UNCHANGED notSet
  \/ /\ \E lo \in SetVals, exc \in BOOLEAN : SetRopen(lo, exc)
     /\ UNCHANGED notSet
  \/ /\ \E s \in 1..Len(set_chain) : SetUnion(s)
     /\ UNCHANGED notSet
  \/ /\ \E s \in 1..Len(set_chain) : SetIntersect(s)
     /\ UNCHANGED notSet
  \/ /\ \E s \in 1..Len(set_chain) : SetExcept(s)
     /\ UNCHANGED notSet
  \/ /\ Len(set_chain) < MaxSets
     /\ set_end
     /\ UNCHANGED notSet

SpecSet == Init /\ [][SetNext]_vars

\* region starts before and after moment zero, at subquanta -1, 0 and 4 (so
\* that the ramp positions between them are binary fractions)
GraphMoments == {-3, 1, 12}

GraphValues == {0, 4}

\* start, target and step of the ramps (linear interpolation)
GraphRamps == {<<0, 4, 1>>, <<4, 0, 2>>, <<4, 4, 1>>}

\* numerator, constant and maximum of the derived regions (denominator 2)
GraphScales == {<<1, 1, -1>>, <<3, -1, 5>>}

GraphNext ==
  \/ /\ Len(graph_chain) < MaxGraphs
     /\ graph_begin
     /\ UNCHANGED notGraph
  \/ /\ \E t \in GraphMoments, v \in GraphValues : graph_add_constant(t, v)
     /\ UNCHANGED notGraph
  \/ /\ \E t \in GraphMoments, k \in GraphRamps :
          graph_add_ramp(t, k[1], k[2], k[3], 0)
     /\ UNCHANGED notGraph
  \/ /\ \E t \in GraphMoments, pg \in 1..Len(graph_chain), t_src \in {0, 6},
           k \in GraphScales :
          graph_add_derived(t, pg, t_src, k[1], 2, k[2], 0, k[3])
     /\ UNCHANGED notGraph
  \/ /\ Len(graph_chain) < MaxGraphs
     /\ \E v \in GraphValues : graph_constant(v)
     /\ UNCHANGED notGraph
  \/ /\ graph_end
     /\ UNCHANGED notGraph

SpecGraph == Init /\ [][GraphNext]_vars

\* A second, narrower alphabet for the graph module: no region before moment
\* zero, fewer ramps and scalings.
DefMoments == {0, 2, 12}

DefValues == {4}

\* values graph_constant is called with
DefConstants == {1, 4, 7}

DefRamps == {<<1, 4, 1>>, <<4, 4, 1>>}

GraphDefNext ==
  \/ /\ Len(graph_chain) < MaxGraphs
     /\ graph_begin
     /\ UNCHANGED notGraph
  \/ /\ \E t \in DefMoments, v \in DefValues : graph_add_constant(t, v)
     /\ UNCHANGED notGraph
  \/ /\ \E t \in DefMoments, k \in DefRamps :
          graph_add_ramp(t, k[1], k[2], k[3], 0)
     /\ UNCHANGED notGraph
  \/ /\ \E t \in DefMoments, pg \in 1..Len(graph_chain) :
          graph_add_derived(t, pg, 0, 1, 2, 1, 0, -1)
     /\ UNCHANGED notGraph
  \/ /\ \E v \in DefConstants :
          /\ \/ Len(graph_chain) < MaxGraphs
             \/ \E i \in 1..Len(graph_cache) : graph_cache[i].v = v
          /\ graph_constant(v)
     /\ UNCHANGED notGraph
  \/ /\ graph_end
     /\ UNCHANGED notGraph

SpecGraphDef == Init /\ [][GraphDefNext]_vars

\* The pointer module: one pointer driven through every function of
\* pointer.h, with values at and around the limits of int32_t.
PtrSects == {-1, 0, 1, 2, 3}

PtrOffs == {0, 6, -7, 89478485, INT32_MAX, INT32_MIN}

PtrRels == {5, INT32_MAX, INT32_MIN}

PtrGraces == {1, 0, -1, -2}

PtrRulers == {NoRuler, [slot |-> 48, gap |-> 0], [slot |-> INT32_MAX, gap |-> 0]}

PtrTilts == {0, 2, -4, INT32_MAX, INT32_MIN}

PtrParts == {-2, -1, 0, 1}

\* pointer_advance is called on a pointer at one of the offsets of PtrOffs
PointerNext ==
  \/ pointer_reset /\ UNCHANGED <<codec, notPointer>>
  \/ (\E sect \in PtrSects : pointer_jump(sect))
       /\ UNCHANGED <<codec, notPointer>>
  \/ (\E offs \in PtrOffs : pointer_seek(offs))
       /\ UNCHANGED <<codec, notPointer>>
  \/ /\ (ptr.head # 0) \/ (ptr.offs \in PtrOffs)
     /\ \E rel \in PtrRels : pointer_advance(rel)
     /\ UNCHANGED <<codec, notPointer>>
  \/ (\E g \in PtrGraces, pr \in PtrRulers : pointer_grace(g, pr))
       /\ UNCHANGED <<codec, notPointer>>
  \/ (\E tilt \in PtrTilts : pointer_tilt(tilt))
       /\ UNCHANGED <<codec, notPointer>>
  \/ (\E m \in PtrParts : pointer_moment(m))
       /\ UNCHANGED <<codec, notPointer>>
  \/ pointer_isHeader /\ UNCHANGED <<codec, notPointer>>
  \/ pointer_compute /\ UNCHANGED <<codec, notPointer>>

SpecPointer == Init /\ [][PointerNext]_vars

\* The conversion test of test_pointer.c: moment offsets at both ends of
\* the range of int32_t and around zero are unpacked and packed again.
MomentInputs ==
  {INT32_MIN + k : k \in 0..63} \cup (-32 .. 32)
    \cup {INT32_MAX - k : k \in 0..63}

\* y = pointer_unpack(x, &i)
codec_unpack(x) ==
  /\ codec.pc = "start"
  /\ codec' = [pc |-> "unpacked", m |-> x, s |-> pointer_unpack_p(x)[1],
               p |-> pointer_unpack_p(x)[2], r |-> 0]

\* pointer_pack(y, i)
codec_pack ==
  /\ codec.pc = "unpacked"
  /\ codec' = IF pointer_pack_overflows(codec.s, codec.p)
                THEN [codec EXCEPT !.pc = "overflow"]
              ELSE [codec EXCEPT !.pc = "packed",
                                 !.r = pointer_pack(codec.s, codec.p)]

MomentNext ==
  \/ (\E x \in MomentInputs : codec_unpack(x))
       /\ UNCHANGED <<ptr, pointer_err, ptr_res, notPointer>>
  \/ codec_pack /\ UNCHANGED <<ptr, pointer_err, ptr_res, notPointer>>

SpecMoment == Init /\ [][MomentNext]_vars

\* Every function of pointer.h that is modelled, on few arguments, with
\* pointer_shutdown called at any time.
PointerDownNext ==
  \/ pointer_reset /\ UNCHANGED <<codec, notPointer>>
  \/ (\E sect \in {0, 1} : pointer_jump(sect))
       /\ UNCHANGED <<codec, notPointer>>
  \/ pointer_seek(6) /\ UNCHANGED <<codec, notPointer>>
  \/ /\ (ptr.head # 0) \/ (ptr.offs \in PtrOffs)
     /\ pointer_advance(5)
     /\ UNCHANGED <<codec, notPointer>>
  \/ (\E pr \in {NoRuler, [slot |-> 48, gap |-> 0]} : pointer_grace(-1, pr))
       /\ UNCHANGED <<codec, notPointer>>
  \/ pointer_tilt(2) /\ UNCHANGED <<codec, notPointer>>
  \/ pointer_moment(1) /\ UNCHANGED <<codec, notPointer>>
  \/ pointer_isHeader /\ UNCHANGED <<codec, notPointer>>
  \/ pointer_compute /\ UNCHANGED <<codec, notPointer>>
  \/ (\E x \in {-1, 7} : codec_unpack(x))
       /\ UNCHANGED <<ptr, pointer_err, ptr_res, notPointer>>
  \/ codec_pack /\ UNCHANGED <<ptr, pointer_err, ptr_res, notPointer>>
  \/ /\ shutdown_calls.pointer < MaxShutdownCalls
     /\ pointer_shutdown
     /\ UNCHANGED <<coreVars, midiVars, controlVars, artVars, setVars,
                    graphVars, renderVars, keyboardVars, mapVars>>

SpecPointerDown == Init /\ [][PointerDownNext]_vars

\* the events importNotes leaves in the buffer: two keys of one channel, two
\* start times, two durations of which the longer reaches the later start
\* time, and the deleted event of a note of duration zero
KbKeys == {60, 61}

KbTimes == {0, 8}

KbDurs == {4, 16}

KbEvent(eid, key, t, dur) ==
  [eid |-> eid, t |-> t, dur |-> dur, key |-> key, ch |-> 0, release |-> 0,
   after |-> 0, pg |-> <<>>]

\* the buffers of n events; importNotes numbers the events in buffer order
KbBuffers(n) ==
  { [x \in 1..n |-> IF f[x].dur = 0 THEN DeletedEvent
                    ELSE KbEvent(x, f[x].key, f[x].t, f[x].dur)] :
      f \in [1..n -> [key : KbKeys, t : KbTimes, dur : KbDurs \cup {0}]] }

notKeyboard == <<coreVars, midiVars, controlVars, artVars, setVars, graphVars,
                 pointerVars, shutdownVars, mapVars>>

KeyboardNext ==
  \/ /\ kb.pc = "idle"
     /\ \E n \in 0..MaxKbEvents : \E buf \in KbBuffers(n) : keyboard_enter(buf)
     /\ UNCHANGED notKeyboard
  \/ keyboard_outer /\ UNCHANGED notKeyboard
  \/ keyboard_inner /\ UNCHANGED notKeyboard

\* the steps of keyboard once it is entered
KeyboardRun == (keyboard_outer \/ keyboard_inner) /\ UNCHANGED notKeyboard

\* keyboard is one sequential function: once entered, its next step is
\* always taken
SpecKeyboard == Init /\ [][KeyboardNext]_vars /\ WF_vars(KeyboardRun)

notShutdown == <<midiVars, controlVars, setVars, graphVars, renderVars,
                 keyboardVars, mapVars>>

\* The interpreter run on one value and one name, an articulation, the
\* pointer, and the shutdown functions that main calls at the end, here
\* called at any time and up to MaxShutdownCalls times each.
ShutdownNext ==
  \/ core_push(1) /\ UNCHANGED notCore
  \/ core_pop /\ UNCHANGED notCore
  \/ core_begin_group /\ UNCHANGED notCore
  \/ core_end_group /\ UNCHANGED notCore
  \/ core_declare(0, "x") /\ UNCHANGED notCore
  \/ core_get("x") /\ UNCHANGED notCore
  \/ /\ shutdown_calls.core < MaxShutdownCalls
     /\ core_shutdown
     /\ UNCHANGED <<artVars, pointerVars, notShutdown>>
  \/ /\ Len(art_store) < MaxArts
     /\ art_new(1, 2, 1, 0)
     /\ UNCHANGED notArt
  \/ /\ shutdown_calls.art < MaxShutdownCalls
     /\ art_shutdown
     /\ UNCHANGED <<coreVars, pointerVars, notShutdown>>
  \/ pointer_jump(1) /\ UNCHANGED <<codec, notPointer>>
  \/ /\ shutdown_calls.pointer < MaxShutdownCalls
     /\ pointer_shutdown
     /\ UNCHANGED <<coreVars, artVars, notShutdown>>

SpecShutdown == Init /\ [][ShutdownNext]_vars

notControlMap == <<coreVars, artVars, setVars, graphVars, renderVars,
                   pointerVars, shutdownVars, keyboardVars>>

\* two graphs that change at the same moment 4; GraphA ends with a node at
\* the end of moment 2 and holds a value above MIDI_DATA_MAX, GraphB ends
\* with a value below MIDI_TEMPO_MIN
GraphA == <<NODE(1, 5), NODE(4, 200), NODE(8, 7)>>

GraphB == <<NODE(0, 1), NODE(4, 2), NODE(7, 0)>>

\* control_auto called with types, channels and indices on both sides of
\* every check it makes, the map kept to MaxMapLen records
MapTypes == {0, CONTROL_TYPE_TEMPO, CONTROL_TYPE_7BIT, CONTROL_TYPE_14BIT,
             CONTROL_TYPE_NONREG, CONTROL_TYPE_PITCH}

MapChs == {0, 1, 2}

MapIdxs == {5, 64, 300}

ControlMapNext ==
  /\ \E ctype \in MapTypes, ch \in MapChs, idx \in MapIdxs,
        pg \in {GraphA, GraphB} :
       control_auto(ctype, ch, idx, pg)
  /\ Cardinality(map_hist'.regs) <= MaxMapLen
  /\ UNCHANGED notControlMap

SpecControlMap == Init /\ [][ControlMapNext]_vars

\* The order of main up to midi_compile: the script registers controllers,
\* notes are rendered in time order on channel 1 in moments 0 to 2, then
\* control_track is called, once.  One controller of each type, all on
\* channel 1.
CtlCalls ==
  {<<CONTROL_TYPE_TEMPO, 0, 0>>, <<CONTROL_TYPE_7BIT, 1, 64>>,
   <<CONTROL_TYPE_14BIT, 1, 5>>, <<CONTROL_TYPE_NONREG, 1, 300>>,
   <<CONTROL_TYPE_REG, 1, 300>>, <<CONTROL_TYPE_PRESSURE, 1, 0>>,
   <<CONTROL_TYPE_PITCH, 1, 0>>}

ControlNext ==
  \/ /\ track_hist.calls = 0
     /\ \E c \in CtlCalls, pg \in {GraphA, GraphB} :
          control_auto(c[1], c[2], c[3], pg)
     /\ Cardinality(map_hist'.regs) <= MaxMapLen
     /\ UNCHANGED notControlMap
  \/ /\ track_hist.calls = 0
     /\ control_err = "none"
     /\ Len(m_moment) < MaxCtlNotes
     /\ \E s \in 0..2 :
          /\ IF m_moment = <<>> THEN TRUE
             ELSE pointer_pack(s, 1) >= Last(m_moment).t
          /\ midi_message(pointer_pack(s, 1), 0, 1, MIDI_MSG_NOTE_ON, 60, 64)
     /\ UNCHANGED <<controlVars, mapVars, notControlMap>>
  \/ /\ track_hist.calls = 0
     /\ control_track
     /\ UNCHANGED notControlMap

SpecControl == Init /\ [][ControlNext]_vars

\* the NMF notes (classifiers select section 1 with the set <<1>>, and every
\* layer and articulation with the set <<-1>>): two measured notes that
\* overlap on one key, a measured note that starts where they end, a grace
\* note on another key, and a note of duration zero
RenderNotes ==
  { [t |-> 0, dur |-> 2, pitch |-> 0, art |-> 0, sect |-> 0, layer_i |-> 0],
    [t |-> 1, dur |-> 1, pitch |-> 0, art |-> 0, sect |-> 0, layer_i |-> 0],
    [t |-> 2, dur |-> 1, pitch |-> 0, art |-> 0, sect |-> 1, layer_i |-> 0],
    [t |-> 1, dur |-> -1, pitch |-> 1, art |-> 0, sect |-> 0, layer_i |-> 0],
    [t |-> 0, dur |-> 0, pitch |-> 0, art |-> 0, sect |-> 0, layer_i |-> 0] }

\* the NMF data objects: every sequence of at most MaxNotes notes
RenderData == UNION {[1..n -> RenderNotes] : n \in 0..MaxNotes}

\* art_new(1, 2, 1, 0)
RenderArts == {[scale |-> 4, bumper |-> 1, gap |-> 0]}

\* ruler_new(8, -4)
RenderRulers == {[slot |-> 8, gap |-> -4]}

\* a graph that is zero, and one that changes during the notes
RenderGraphs == {<<NODE(0, 0)>>, <<NODE(0, 64), NODE(28, 80)>>}

\* main(): the script registers classifiers, then render_nmf runs, then
\* midi_compile writes the file
RenderNext ==
  \/ /\ m_render = 0
     /\ Len(m_pipe) < MaxPipe
     /\ \E v \in RenderArts : render_classify_art(<<1>>, <<-1>>, <<-1>>, v)
     /\ UNCHANGED notRender
  \/ /\ m_render = 0
     /\ Len(m_pipe) < MaxPipe
     /\ \E v \in RenderRulers :
          render_classify_ruler(<<-1>>, <<-1>>, <<-1>>, v)
     /\ UNCHANGED notRender
  \/ /\ m_render = 0
     /\ Len(m_pipe) < MaxPipe
     /\ \E v \in RenderGraphs :
          render_classify_graph(<<-1>>, <<-1>>, <<-1>>, v)
     /\ UNCHANGED notRender
  \/ /\ m_render = 0
     /\ Len(m_pipe) < MaxPipe
     /\ render_classify_channel(<<1>>, <<-1>>, <<-1>>, 2)
     /\ UNCHANGED notRender
  \/ /\ m_render = 0
     /\ Len(m_pipe) < MaxPipe
     /\ render_classify_release(<<1>>, <<-1>>, <<-1>>, 64)
     /\ UNCHANGED notRender
  \/ /\ m_render = 0
     /\ Len(m_pipe) < MaxPipe
     /\ render_classify_aftertouch(<<-1>>, <<-1>>, <<-1>>, 1)
     /\ UNCHANGED notRender
  \/ /\ m_render = 0
     /\ \E pd \in RenderData : render_nmf(pd)
     /\ UNCHANGED <<coreVars, controlVars, artVars, setVars, graphVars,
                    pointerVars, shutdownVars, keyboardVars, mapVars>>
  \/ /\ m_render = 1
     /\ render_err = "none"
     /\ m_compiled = 0
     /\ midi_compile
     /\ UNCHANGED notMidi

SpecRender == Init /\ [][RenderNext]_vars

\* the classifier pipeline: classifiers of every kind whose sets select
\* everything (<<-1>>), or section 1, layer 1 or articulation 1 only
\* (<<1>>), registered before and after render_nmf, and render_nmf called
\* on one note: a measured note of section 1, the first layer (one-based: 1)
\* and articulation 1, or a grace note that only the open sets select
PipeNotes ==
  { [t |-> 1, dur |-> 1, pitch |-> 2, art |-> 1, sect |-> 1, layer_i |-> 0],
    [t |-> 1, dur |-> -1, pitch |-> 1, art |-> 0, sect |-> 0, layer_i |-> 2] }

PipeData == {<<n>> : n \in PipeNotes}

PipeRoom == Len(m_pipe) < MaxPipeLen

PipeNext ==
  \/ /\ PipeRoom
     /\ render_classify_art(<<-1>>, <<-1>>, <<-1>>,
                            [scale |-> 4, bumper |-> 1, gap |-> 0])
     /\ UNCHANGED notRender
  \/ /\ PipeRoom
     /\ render_classify_ruler(<<-1>>, <<-1>>, <<-1>>, [slot |-> 8, gap |-> -4])
     /\ UNCHANGED notRender
  \/ /\ PipeRoom
     /\ render_classify_graph(<<-1>>, <<-1>>, <<-1>>,
                              <<NODE(0, 64), NODE(28, 80)>>)
     /\ UNCHANGED notRender
  \/ /\ PipeRoom
     /\ \E c \in {<<(<<-1>>), 2>>, <<(<<1>>), 3>>} :
          render_classify_channel(c[1], <<-1>>, <<-1>>, c[2])
     /\ UNCHANGED notRender
  \/ /\ PipeRoom
     /\ \E c \in {<<(<<-1>>), 64>>, <<(<<1>>), 0>>} :
          render_classify_release(<<-1>>, c[1], c[1], c[2])
     /\ UNCHANGED notRender
  \/ /\ PipeRoom
     /\ render_classify_aftertouch(<<-1>>, <<-1>>, <<-1>>, 1)
     /\ UNCHANGED notRender
  \/ /\ \E pd \in PipeData : render_nmf(pd)
     /\ UNCHANGED <<coreVars, controlVars, artVars, setVars, graphVars,
                    pointerVars, shutdownVars, keyboardVars, mapVars>>

SpecPipe == Init /\ [][PipeNext]_vars

(***************************************************************************)
(* Claims                                                                  *)
(***************************************************************************)

\* the events of the moment buffer as written to the track, in file order
WrittenMoments == SelectSeq(out_file.trk, LAMBDA e : e.head = 0)

Compiled == (m_compiled = 1) /\ (midi_err = "none")

\* C1: in the compiled track the delta time in front of every moment-list
\* event is that event's subquantum minus the subquantum of the moment-list
\* event written just before it, and for the first one minus
\* event_range_lower
C1_DeltaIsSubquantumDifference ==
  Compiled =>
    \A i \in 1..Len(WrittenMoments) :
      WrittenMoments[i].delta =
        pointer_unpack(WrittenMoments[i].t)
          - (IF i = 1 THEN m_lower
             ELSE pointer_unpack(WrittenMoments[i - 1].t))

\* C2: assign(name) on a variable removes the top visible value from the
\* stack and makes it the binding of the name, so that the stack is one
\* shorter and get(name) pushes the assigned value from then on
C2_AssignPopsIntoBinding ==
  [][\A k \in Names :
       ( /\ core_assign(k)
         /\ m_bank[k] # NoCell
         /\ m_bank[k].is_const = 0
         /\ core_err' = "none" )
       => ( /\ Len(m_st) > Hidden
            /\ Len(m_st') = Len(m_st) - 1
            /\ m_bank'[k] = [cv |-> Last(m_st), is_const |-> 0] )]_vars

IsPowerOfTwo(n) == n \in {1, 2, 4, 8, 16, 32, 64, 128, 256, 512, 1024}

\* C8: the time-signature operation accepts a denominator exactly when it
\* is a power of two from 1 up to MIDI_TIME_DENOM_MAX, whatever numerator
\* and metronome value within their ranges come with it
C8_TimeSigAcceptsPowersOfTwo ==
  [][\A pp \in SigPointers, num \in SigNums, denom \in SigDenoms,
        metro \in SigMetros :
       ( /\ control_time_sig(pp, num, denom, metro)
         /\ num \in 1..MIDI_TIME_NUM_MAX
         /\ metro \in 1..MIDI_TIME_METRO_MAX )
       => ( ((control_err' = "none") /\ (midi_err' = "none"))
              <=> IsPowerOfTwo(denom) )]_vars

\* status class and status bucket of a written event, as the order is
\* documented
StatusClass(e) == IF e.sel.status \in 128..175 THEN 2 ELSE 1

StatusBucket(e) == IF e.sel.status \in 240..255 THEN 240 ELSE e.sel.status

\* e1 comes strictly before e2 in the documented order of the moment list
OrderedBefore(e1, e2) ==
  \/ e1.t < e2.t
  \/ /\ e1.t = e2.t
     /\ \/ StatusClass(e1) < StatusClass(e2)
        \/ /\ StatusClass(e1) = StatusClass(e2)
           /\ \/ StatusBucket(e1) < StatusBucket(e2)
              \/ /\ StatusBucket(e1) = StatusBucket(e2)
                 /\ e1.eid < e2.eid

\* the events the caller added, as midi_compile wrote them: all but the
\* End-Of-Track that midi_compile appends itself
WrittenAdded(f) ==
  LET w == SelectSeq(f.trk, LAMBDA e : e.head = 0)
  IN  SubSeq(w, 1, Len(w) - 1)

CompileStep == (m_compiled = 0) /\ (m_compiled' = 1) /\ (midi_err' = "none")

\* C9: midi_compile writes exactly the events of the moment list, in
\* ascending moment order; events of equal moment come by status class, then
\* status byte (0xF0-0xFF one bucket), then event id, and no two events
\* compare equal, so the written order is determined by the calls made
C9_MomentListOrder ==
  [][CompileStep =>
       LET w == WrittenAdded(out_file')
       IN  /\ Len(w) = Len(m_moment)
           /\ \A e \in {m_moment[i] : i \in 1..Len(m_moment)} :
                \E i \in 1..Len(w) :
                  (w[i].eid = e.eid) /\ (w[i].t = e.t) /\ (w[i].sel = e.sel)
           /\ \A i, j \in 1..Len(w) : (i < j) => OrderedBefore(w[i], w[j])]_vars

\* C9 witness: a compiled track of three added events where events of one
\* moment were written against the order they were added in, and an event
\* added later was written before one of an earlier moment
C9_Witness ==
  /\ Compiled
  /\ Len(WrittenAdded(out_file)) = 3
  /\ \E i, j \in 1..3 :
       LET w == WrittenAdded(out_file)
       IN  (i < j) /\ (w[i].t = w[j].t) /\ (w[i].eid > w[j].eid)
  /\ \E i, j \in 1..3 :
       LET w == WrittenAdded(out_file)
       IN  (i < j) /\ (w[i].t < w[j].t) /\ (w[i].eid > w[j].eid)

\* the articulation, measured duration and result of the last art_transform
RetArt == art_store[art_ret.pa]

Returned == (art_ret # NoRet) /\ (art_err = "none")

SmallDur == art_ret.dur <= INT32_MAX \div 8

C5_SetInclusion ==
  \A s \in 1..Len(set_chain) :
    \A x \in SetWindow : set_has(set_chain[s], x) = (x \in naive_chain[s])

\* the region last resolved, the start of the region after it, and the
\* nodes the resolution added
ResBuf == graph_res.buf

RECURSIVE DerivedNodes(_, _, _)
DerivedNodes(buf, calls, i) ==
  IF i > Len(calls) THEN <<>>
  ELSE LET k == ((calls[i].v * buf.a) \div buf.b) + buf.c
           lo == Max2(k, buf.min_val)
           v == IF buf.max_val >= 0 THEN Min2(lo, buf.max_val) ELSE lo
       IN  <<NODE(buf.t + (calls[i].t - buf.t_src), v)>>
             \o DerivedNodes(buf, calls, i + 1)

\* the changes graph_track reports for the source of a derived region
SourceChanges(buf, t_next, has_next) ==
  graph_track(graph_chain[buf.pg], buf.t_src,
              (t_next - buf.t) + buf.t_src, 0, has_next, 0)

\* C4: every change (t_src_cb, v_cb) reported while tracking the source of
\* a derived region anchored at t produces a node at t + (t_src_cb - t_src)
\* with value clamp(floor(v_cb * num / denom) + c, [min, max])
C4_DerivedNodes ==
  (ResBuf.state = STATE_DERIVE
     /\ (graph_res.has_next = 0 \/ graph_res.t_next > ResBuf.t)) =>
    graph_res.emit =
      DerivedNodes(ResBuf,
                   SourceChanges(ResBuf, graph_res.t_next, graph_res.has_next),
                   1)

RECURSIVE RampSamples(_, _, _, _, _)
RampSamples(buf, k, ts, te, mp) ==
  IF k >= te THEN <<>>
  ELSE (IF (k > ts) /\ (k % buf.c = 0)
          THEN <<NODE(pointer_pack(k, mp),
                      Max2(0, Min2(INT32_MAX,
                        buf.a + (((buf.b - buf.a) * (k - ts))
                                   \div (te - ts)))))>>
        ELSE <<>>)
       \o RampSamples(buf, k + 1, ts, te, mp)

\* C7: a ramp a->b (a # b) with step s anchored at t, negative or not, and
\* followed by a region at t_next, resolves to (t, a) and then one sample at
\* every multiple of s strictly between the two subquanta, each with the
\* moment part of t and the interpolated value floored and clamped
C7_RampSamples ==
  (ResBuf.state = STATE_RAMP /\ ResBuf.a # ResBuf.b
     /\ graph_res.has_next = 1 /\ graph_res.t_next > ResBuf.t) =>
    graph_res.emit =
      <<NODE(ResBuf.t, ResBuf.a)>>
        \o RampSamples(ResBuf, pointer_unpack(ResBuf.t),
                       pointer_unpack(ResBuf.t),
                       pointer_unpack(graph_res.t_next),
                       pointer_unpack_p(ResBuf.t)[2])

IsNoteOn(sel) ==
  (sel.status \div 16 = MIDI_MSG_NOTE_ON) /\ (sel.data[2] >= 1)

IsRelease(sel) ==
  \/ sel.status \div 16 = MIDI_MSG_NOTE_OFF
  \/ (sel.status \div 16 = MIDI_MSG_NOTE_ON) /\ (sel.data[2] = 0)

SameKey(s1, s2) == (s1.status % 16 = s2.status % 16) /\ (s1.data[1] = s2.data[1])

\* positions in the moment buffer of the note-on of each pair render_nmf
\* emitted; the release of the pair is the next message
NotePairs == {i \in 1..Len(m_moment) : IsNoteOn(m_moment[i].sel)}

\* C3: for every channel and key, the note-on/note-off pairs render_nmf has
\* put into the MIDI assembler do not overlap in time: of two pairs on one
\* channel and key, one is released before the other one starts
C3_KeyboardNonOverlap ==
  (m_render = 1) =>
    \A i \in NotePairs, j \in NotePairs :
      (i < j /\ SameKey(m_moment[i].sel, m_moment[j].sel)) =>
        \/ m_moment[i + 1].t < m_moment[j].t
        \/ m_moment[j + 1].t < m_moment[i].t

\* C10: in the compiled track, a note's release (Note-Off, or Note-On with
\* velocity 0) and a note-on for the same channel and key that fall at the
\* same subquantum are written release first
C10_ReleaseBeforeNoteOn ==
  (Compiled /\ m_render = 1) =>
    \A i \in 1..Len(WrittenMoments), j \in 1..Len(WrittenMoments) :
      (/\ IsRelease(WrittenMoments[i].sel)
       /\ IsNoteOn(WrittenMoments[j].sel)
       /\ SameKey(WrittenMoments[i].sel, WrittenMoments[j].sel)
       /\ pointer_unpack(WrittenMoments[i].t)
            = pointer_unpack(WrittenMoments[j].t)) => i < j

\* a compiled track in which one note ends at the subquantum at which
\* another note on the same channel and key starts
C10_Witness ==
  /\ Compiled
  /\ m_render = 1
  /\ \E i \in 1..Len(WrittenMoments), j \in 1..Len(WrittenMoments) :
       /\ IsRelease(WrittenMoments[i].sel)
       /\ IsNoteOn(WrittenMoments[j].sel)
       /\ SameKey(WrittenMoments[i].sel, WrittenMoments[j].sel)
       /\ pointer_unpack(WrittenMoments[i].t)
            = pointer_unpack(WrittenMoments[j].t)
       /\ i < j

\* ---- the track body: size pass against write pass ----

RECURSIVE TrackBytes(_, _)
TrackBytes(trk, i) ==
  IF i > Len(trk) THEN 0 ELSE Len(trk[i].bytes) + TrackBytes(trk, i + 1)

\* the status of the event written before entry i, 0 for the first
PrevStatus(trk, i) == IF i > 1 THEN trk[i - 1].sel.status ELSE 0

\* entry i was written without its status byte: the byte after the delta
\* time is a data byte
StatusOmitted(trk, i) ==
  trk[i].bytes[sizeVInt(trk[i].delta) + 1] # trk[i].sel.status

RunningStatus(trk, i) ==
  /\ trk[i].sel.status >= 128
  /\ trk[i].sel.status <= 239
  /\ PrevStatus(trk, i) = trk[i].sel.status

\* C11: in every compiled track the length computed by the size pass is the
\* number of bytes the write pass emitted, event by event and in total, and
\* the status byte is left out of exactly the events whose status is in
\* 0x80-0xEF and equals the status of the event written before.
C11_SizePassEqualsWritePass ==
  Compiled =>
    /\ out_file.len = TrackBytes(out_file.trk, 1)
    /\ \A i \in 1..Len(out_file.trk) :
         /\ Len(out_file.trk[i].bytes)
              = sizeVInt(out_file.trk[i].delta)
                  + sizeMsg(out_file.trk[i].sel, PrevStatus(out_file.trk, i))
         /\ StatusOmitted(out_file.trk, i) <=> RunningStatus(out_file.trk, i)

\* a compiled track in which a status byte was left out after a header
\* event, and one written again after a meta event
C11_Witness ==
  /\ Compiled
  /\ \E i \in 2..Len(out_file.trk) :
       StatusOmitted(out_file.trk, i) /\ (out_file.trk[i - 1].head = 1)
  /\ \E i \in 2..Len(out_file.trk) :
       /\ out_file.trk[i].sel.status = 255
       /\ out_file.trk[i - 1].sel.status = 255

\* ---- End-Of-Track ----

IsEndOfTrack(e) == (e.sel.status = 255) /\ (e.sel.data[1] = 47)

\* the greatest subquantum of the non-header events; after midi_compile
\* the End-Of-Track event's own subquantum is among them
RangeUpper == CHOOSE u \in range_hist : \A x \in range_hist : x <= u

\* C12: a compiled track holds exactly one End-Of-Track meta event, written
\* last as FF 2F 00, at the end-of-moment part of the upper bound of the
\* event range, and no event of the moment list has a later moment offset.
C12_EndOfTrackLast ==
  Compiled =>
    LET trk == out_file.trk
        n == Len(trk)
    IN  /\ n >= 1
        /\ \A i \in 1..n : IsEndOfTrack(trk[i]) <=> (i = n)
        /\ trk[n].head = 0
        /\ trk[n].t = pointer_pack(RangeUpper, 2)
        /\ SubSeq(trk[n].bytes, Len(trk[n].bytes) - 2, Len(trk[n].bytes))
             = <<255, 47, 0>>
        /\ \A i \in 1..n : (trk[i].head = 0) => (trk[i].t <= trk[n].t)

\* a compiled track with a header event, a moment event at the upper
\* bound's subquantum and an earlier one
C12_Witness ==
  /\ Compiled
  /\ Len(out_file.trk) >= 3
  /\ \E i, j \in 1..Len(out_file.trk) :
       /\ out_file.trk[i].head = 0
       /\ out_file.trk[j].head = 0
       /\ ~IsEndOfTrack(out_file.trk[i])
       /\ out_file.trk[i].t < out_file.trk[j].t
       /\ pointer_unpack(out_file.trk[j].t) = RangeUpper
       /\ ~IsEndOfTrack(out_file.trk[j])
  /\ \E k \in 1..Len(out_file.trk) : out_file.trk[k].head = 1

\* ---- header events ----

\* a step of an event function that adds a header event
HeaderAdded == (m_compiled' = 0) /\ (m_head' # m_head)

\* C13: every header event is added behind the header events added before
\* it, whatever was added to the moment list meanwhile, and midi_compile
\* writes the header events first, in that order, each with the one delta
\* byte 0, and every moment-list event after them.
C13_HeaderEventsFirst ==
  [][/\ HeaderAdded =>
          /\ Len(m_head') = Len(m_head) + 1
          /\ SubSeq(m_head', 1, Len(m_head)) = m_head
     /\ CompileStep =>
          LET trk == out_file'.trk
              h == Len(m_head)
          IN  /\ Len(trk) = h + Len(m_moment) + 1
              /\ \A i \in 1..Len(trk) : (trk[i].head = 1) <=> (i <= h)
              /\ \A i \in 1..h :
                   /\ trk[i].sel = m_head[i]
                   /\ trk[i].delta = 0
                   /\ trk[i].bytes[1] = 0]_vars

\* a compiled track of two different header events and a moment-list event
C13_Witness ==
  /\ Compiled
  /\ Len(out_file.trk) = 4
  /\ out_file.trk[1].head = 1
  /\ out_file.trk[2].head = 1
  /\ out_file.trk[1].sel # out_file.trk[2].sel
  /\ out_file.trk[3].eid = 1
  /\ m_unique = 2

\* ---- the event range ----

RangeAsAdded ==
  IF range_hist = {} THEN (m_lower = 0) /\ (m_upper = 0)
  ELSE /\ m_lower \in range_hist
       /\ m_upper \in range_hist
       /\ \A x \in range_hist : (m_lower <= x) /\ (x <= m_upper)

\* C14: before midi_compile, what midi_range_lower and midi_range_upper
\* return is the least and the greatest subquantum of the non-header events
\* added so far, null events among them, or 0 and 0 when there is none;
\* adding a header event leaves the range as it is.
C14_EventRange ==
  /\ []((m_compiled = 0) => RangeAsAdded)
  /\ [][HeaderAdded => UNCHANGED <<m_filled, m_lower, m_upper>>]_vars

\* header and moment events added, and a null event below all of them
C14_Witness ==
  /\ m_compiled = 0
  /\ midi_err = "none"
  /\ Len(m_head) >= 1
  /\ Len(m_moment) >= 2
  /\ m_lower < 0
  /\ m_upper > 1
  /\ \A i \in 1..Len(m_moment) : pointer_unpack(m_moment[i].t) > m_lower
  /\ \E i \in 1..Len(m_moment) : pointer_unpack(m_moment[i].t) < m_upper

\* ---- after midi_compile ----

Failed == midi_err' = "Compiled"

\* each function of midi.h, called in a state, raises the error
EveryFunctionFails ==
  /\ ENABLED (midi_null(0, 0) /\ Failed)
  /\ ENABLED (midi_null(0, 1) /\ Failed)
  /\ ENABLED (midi_text(0, 1, 3, <<65>>) /\ Failed)
  /\ ENABLED (midi_tempo(0, 0, 500000) /\ Failed)
  /\ ENABLED (midi_time_sig(0, 1, 3, 4, 24) /\ Failed)
  /\ ENABLED (midi_key_sig(0, 1, 0, 0) /\ Failed)
  /\ ENABLED (midi_custom(0, 0, <<9>>) /\ Failed)
  /\ ENABLED (midi_system(0, 0, <<1>>) /\ Failed)
  /\ ENABLED (midi_message(0, 0, 1, MIDI_MSG_NOTE_ON, 60, 64) /\ Failed)
  /\ ENABLED (midi_range_lower /\ Failed)
  /\ ENABLED (midi_range_upper /\ Failed)
  /\ ENABLED (midi_compile /\ Failed)

\* C15: once midi_compile has run, each event function, each range getter
\* and midi_compile itself raises an error when called, and no call made
\* then does anything else.
C15_CompileOnce ==
  /\ [](Compiled => EveryFunctionFails)
  /\ [][Compiled => Failed /\ UNCHANGED <<m_compiled, m_unique, m_filled,
                        m_lower, m_upper, m_head, m_moment, out_file>>]_vars

\* a function was called after midi_compile had written a track of header
\* and moment events
C15_Witness ==
  /\ m_compiled = 1
  /\ midi_err = "Compiled"
  /\ Len(out_file.trk) >= 3
  /\ out_file.trk[1].head = 1

\* ---- after render_nmf ----

Rendered == (m_render = 1) /\ (render_err = "none") /\ (midi_err = "none")

RenderFailed == render_err' = "Rendered"

\* each classifier registration and render_nmf, called in a state, raises
\* the error
EveryRenderFunctionFails ==
  /\ ENABLED (render_classify_art(<<-1>>, <<-1>>, <<-1>>, m_def_art)
               /\ RenderFailed)
  /\ ENABLED (render_classify_ruler(<<-1>>, <<-1>>, <<-1>>, m_def_ruler)
               /\ RenderFailed)
  /\ ENABLED (render_classify_graph(<<-1>>, <<-1>>, <<-1>>, m_def_graph)
               /\ RenderFailed)
  /\ ENABLED (render_classify_channel(<<-1>>, <<-1>>, <<-1>>, 1)
               /\ RenderFailed)
  /\ ENABLED (render_classify_release(<<-1>>, <<-1>>, <<-1>>, 0)
               /\ RenderFailed)
  /\ ENABLED (render_classify_aftertouch(<<-1>>, <<-1>>, <<-1>>, 0)
               /\ RenderFailed)
  /\ ENABLED (render_nmf(<<>>) /\ RenderFailed)

\* C16: once render_nmf has run, each classifier registration and
\* render_nmf itself raises an error when called, and leaves the pipeline,
\* the events and the assembler as they are.
C16_RenderOnce ==
  /\ [](Rendered => EveryRenderFunctionFails)
  /\ [][Rendered => RenderFailed /\ UNCHANGED <<m_render, m_pipe, m_buf,
                                                 midiVars>>]_vars

\* a function was called after render_nmf had rendered a note through a
\* pipeline of classifiers
C16_Witness ==
  /\ m_render = 1
  /\ render_err = "Rendered"
  /\ Len(m_pipe) >= 1
  /\ Len(m_moment) >= 2

\* ---- the classifier pipeline ----

\* membership in the set a one-entry table stands for: the value itself,
\* or every value from it upwards when the entry is open
Contains(table, x) ==
  \E k \in 1..Len(table) :
    IF table[k] < 0 THEN x >= 0 - (table[k] + 1) ELSE x = table[k]

\* the classifiers of a kind, by index, whose three sets hold the note
MatchingOfKind(pn, kind) ==
  {i \in 1..Len(m_pipe) :
     /\ m_pipe[i].ctype = kind
     /\ Contains(m_pipe[i].pSect, pn.sect)
     /\ Contains(m_pipe[i].pLayer, pn.layer_i + 1)
     /\ Contains(m_pipe[i].pArt, pn.art)}

LastValue(pn, kind, default) ==
  LET S == MatchingOfKind(pn, kind)
  IN  IF S = {} THEN default
      ELSE m_pipe[CHOOSE i \in S : \A j \in S : j <= i].v

\* C17: the event render_nmf makes of a note carries, for each kind, the
\* value of the classifier of that kind registered last among those whose
\* section, one-based layer and articulation sets hold the note, whatever
\* classifiers of other kinds stand between, and the default of the kind
\* when there is none: channel, release and aftertouch as they are, the
\* graph as the event's graph, the articulation through the duration of a
\* measured note, the ruler through offset and duration of a grace note.
C17_LastClassifierWins ==
  Rendered =>
    \A i \in 1..Len(nmf_pd) :
      LET pn == nmf_pd[i]
          pe == m_buf[i]
          pArt == LastValue(pn, CLASS_ART, m_def_art)
          pRuler == LastValue(pn, CLASS_RULER, m_def_ruler)
      IN  (pn.dur # 0) =>
            /\ pe.ch = LastValue(pn, CLASS_CHANNEL, 1)
            /\ pe.release = LastValue(pn, CLASS_RELEASE, -1)
            /\ pe.after = LastValue(pn, CLASS_AFTERTOUCH, 0)
            /\ pe.pg = LastValue(pn, CLASS_GRAPH, m_def_graph)
            /\ (pn.dur > 0) => (pe.dur = art_transform(pArt, pn.dur))
            /\ (pn.dur < 0) =>
                 /\ pe.t = ruler_pos(pRuler, pn.t * 8, pn.dur)
                 /\ pe.dur = ruler_dur(pRuler)

\* a note rendered through a pipeline in which two classifiers of one kind
\* with different values both hold the note, a classifier of another kind
\* stands between them, and a third kind is left to its default
C17_Witness ==
  /\ Rendered
  /\ Len(nmf_pd) = 1
  /\ Len(m_pipe) = 3
  /\ m_pipe[1].ctype = m_pipe[3].ctype
  /\ m_pipe[1].v # m_pipe[3].v
  /\ m_pipe[2].ctype # m_pipe[1].ctype
  /\ MatchingOfKind(nmf_pd[1], m_pipe[1].ctype) = {1, 3}
  /\ MatchingOfKind(nmf_pd[1], m_pipe[2].ctype) = {2}
  /\ MatchingOfKind(nmf_pd[1], CLASS_GRAPH) = {}

\* ---- the messages of a note ----

\* the note-on and release messages render_nmf added, in the order added
NoteMessages ==
  SelectSeq(m_moment, LAMBDA e : (e.sel.status >= 128) /\ (e.sel.status <= 159))

\* the indices of the notes of non-zero duration up to index i
LiveUpTo(i) == {j \in 1..i : nmf_pd[j].dur # 0}

TopSnapshot == IF Len(m_gs) > 0 THEN m_gs[Len(m_gs)] ELSE 0

\* C19: whenever the stack is no longer than the snapshot of the innermost
\* open group (or is empty with no group open), core_pop raises the stack
\* underflow error and removes nothing; and no step of any operation
\* changes the values that were on the stack when a group was begun, for as
\* long as that group stays open.
C19_PopRespectsGroups ==
  /\ [](((core_err = "none") /\ (Len(m_st) <= TopSnapshot)) =>
         /\ ENABLED (core_pop /\ (core_err' = "StackUnderflow")
                       /\ UNCHANGED <<m_st, m_gs, m_bank>>)
         /\ ~ENABLED (core_pop /\ (core_err' = "none")))
  /\ [][\A g \in 1..Len(m_gs) :
          (g <= Len(m_gs')) =>
            /\ m_gs'[g] = m_gs[g]
            /\ Len(m_st') >= m_gs[g]
            /\ SubSeq(m_st', 1, m_gs[g]) = SubSeq(m_st, 1, m_gs[g])]_vars

\* the underflow error was raised with a group open over a stack that
\* holds values, all of them hidden
C19_Witness ==
  /\ core_err = "StackUnderflow"
  /\ Len(m_gs) >= 1
  /\ Len(m_st) >= 1
  /\ Len(m_st) = TopSnapshot

\* C20: core_end_group closes the innermost group, removing its snapshot
\* and nothing else, exactly when a group is open and the stack is one
\* longer than that snapshot; called in any other state it raises the group
\* error and changes nothing; and no other operation closes a group.
C20_EndGroup ==
  /\ []((core_err = "none") =>
         IF (Len(m_gs) >= 1) /\ (Len(m_st) = TopSnapshot + 1)
           THEN /\ ENABLED (core_end_group /\ (core_err' = "none")
                             /\ (m_gs' = Front(m_gs))
                             /\ UNCHANGED <<m_st, m_bank>>)
                /\ ~ENABLED (core_end_group /\ (core_err' # "none"))
           ELSE /\ ENABLED (core_end_group
                             /\ (core_err' = "GroupConstraint")
                             /\ UNCHANGED <<m_st, m_gs, m_bank>>)
                /\ ~ENABLED (core_end_group /\ (core_err' = "none")))
  /\ [][(Len(m_gs') < Len(m_gs)) =>
          /\ Len(m_st) = TopSnapshot + 1
          /\ m_gs' = Front(m_gs)
          /\ UNCHANGED <<m_st, m_bank, core_err>>]_vars

\* the group error was raised with a group open over two visible values
C20_Witness ==
  /\ core_err = "GroupConstraint"
  /\ Len(m_gs) >= 1
  /\ Len(m_st) = TopSnapshot + 2

\* ---- constants of the memory bank ----

IsConst(k) == (m_bank[k] # NoCell) /\ (m_bank[k].is_const = 1)

\* what the operations on the name k do in a state where k is a constant
ConstHolds(k) ==
  /\ ENABLED (core_assign(k) /\ (core_err' = "Const")
                /\ UNCHANGED <<m_st, m_gs, m_bank>>)
  /\ ~ENABLED (core_assign(k) /\ (core_err' = "none"))
  /\ ENABLED (core_declare(0, k) /\ (core_err' = "Redefinition")
                /\ UNCHANGED <<m_st, m_gs, m_bank>>)
  /\ ENABLED (core_declare(1, k) /\ (core_err' = "Redefinition")
                /\ UNCHANGED <<m_st, m_gs, m_bank>>)
  /\ ~ENABLED (core_declare(0, k) /\ (core_err' = "none"))
  /\ ~ENABLED (core_declare(1, k) /\ (core_err' = "none"))
  /\ (Len(m_st) < MaxStack) =>
       ENABLED (core_get(k) /\ (m_st' = Append(m_st, m_bank[k].cv))
                 /\ UNCHANGED <<m_gs, m_bank, core_err>>)

\* C21: a name declared as a constant is bound to the value popped by its
\* declaration, and no step of any operation changes that binding: on it
\* core_assign raises the constant error and core_declare the redefinition
\* error, both leaving stack and bank alone, and core_get pushes the bound
\* value.
C21_ConstantsKeepTheirValue ==
  /\ []((core_err = "none") =>
         /\ IsConst("x") => ConstHolds("x")
         /\ IsConst("y") => ConstHolds("y"))
  /\ [][\A k \in Names :
          /\ IsConst(k) => (m_bank'[k] = m_bank[k])
          /\ ((m_bank[k] = NoCell) /\ (m_bank'[k] # NoCell)) =>
               (m_bank'[k].cv = Last(m_st))]_vars

\* assignment to a constant was refused after the constant had been read
\* and another value pushed
C21_Witness ==
  /\ core_err = "Const"
  /\ \E k \in Names :
       /\ IsConst(k)
       /\ Len(m_st) >= 2
       /\ m_st[1] = m_bank[k].cv
       /\ m_st[2] # m_bank[k].cv

\* ---- graph objects ----

WellFormedGraph(g) ==
  /\ Len(g) >= 1
  /\ \A i \in 1..Len(g) : g[i].v >= 0
  /\ \A i \in 2..Len(g) : (g[i - 1].t < g[i].t) /\ (g[i - 1].v # g[i].v)

\* C22: every graph object made by graph_end or graph_constant has at least
\* one node, node times strictly ascending, no negative value, and no node
\* whose value equals that of the node before it.
C22_GraphsWellFormed ==
  \A k \in 1..Len(graph_chain) : WellFormedGraph(graph_chain[k])

\* graph_end made a graph of several nodes out of a definition whose last
\* region gave a node that was left out because the value had not changed
C22_Witness ==
  /\ graph_err = "none"
  /\ graph_load = 0
  /\ Len(graph_chain) >= 1
  /\ graph_res.has_next = 0
  /\ Len(graph_res.emit) >= 1
  /\ LET g == graph_chain[Len(graph_chain)]
         e == graph_res.emit[Len(graph_res.emit)]
     IN  /\ Len(g) >= 2
         /\ e.t > g[Len(g)].t
         /\ e.v = g[Len(g)].v

\* the call fails with error e, and no call of it succeeds
GraphCallFails(call, e) ==
  /\ ENABLED (call /\ graph_err' = e)
  /\ ~ENABLED (call /\ graph_err' = "none")

\* C23: graph_begin fails while a definition is open; graph_add_constant,
\* graph_add_ramp, graph_add_derived and graph_end fail while none is open; a
\* graph_end that succeeds leaves no definition open and the region buffer
\* empty, and with no definition open graph_begin is accepted.
C23_DefinitionProtocol ==
  /\ []((graph_err = "none" /\ graph_load # 0) =>
          GraphCallFails(graph_begin, "Loaded"))
  /\ []((graph_err = "none" /\ graph_load = 0) =>
          /\ GraphCallFails(graph_add_constant(0, 4), "NotLoaded")
          /\ GraphCallFails(graph_add_ramp(0, 1, 4, 2, 0), "NotLoaded")
          /\ GraphCallFails(graph_add_derived(0, 1, 0, 1, 2, 1, 0, -1),
                            "NotLoaded")
          /\ GraphCallFails(graph_end, "NotLoaded")
          /\ ENABLED (graph_begin /\ graph_err' = "none" /\ graph_load' = 1))
  /\ [][(graph_end /\ graph_err' = "none") =>
          (graph_load' = 0 /\ graph_buf' = EmptyBuf /\ graph_acc' = <<>>)]_vars

\* a definition is open again after graph_end made a graph of several nodes
C23_Witness ==
  /\ graph_err = "none"
  /\ graph_load = 1
  /\ graph_buf.state # STATE_EMPTY
  /\ \E k \in 1..Len(graph_chain) : Len(graph_chain[k]) >= 2

\* the region buffered last is a ramp between two different values
RampBuffered == (graph_buf.state = STATE_RAMP) /\ (graph_buf.a # graph_buf.b)

\* C24: graph_end fails with the error "Ramp may not be last region" whenever
\* the region added last is a ramp with a # b; a definition holding such a
\* ramp is finished only when another region was added after the ramp.
C24_RampAtEnd ==
  /\ []((graph_err = "none" /\ graph_load # 0 /\ RampBuffered) =>
          GraphCallFails(graph_end, "RampLast"))
  /\ [][\A t \in DefMoments, k \in DefRamps :
          (graph_add_ramp(t, k[1], k[2], k[3], 0) /\ graph_err' = "none") =>
            /\ graph_buf'.t = t
            /\ (k[1] # k[2]) =>
                 (RampBuffered' /\ graph_buf'.a = k[1] /\ graph_buf'.b = k[2])
            /\ (k[1] = k[2]) => ~RampBuffered']_vars
  /\ [][(graph_end /\ graph_err' = "none") => ~RampBuffered]_vars

\* graph_end has failed on a definition whose last region is a ramp that
\* follows another region
C24_Witness ==
  /\ graph_err = "RampLast"
  /\ graph_res.has_next = 0
  /\ graph_res.buf.state = STATE_RAMP
  /\ graph_res.buf.a # graph_res.buf.b
  /\ graph_res.buf.t > 0

\* times a graph is queried at: from before the first node to after the last
QueryTimes == -2 .. 17

\* the value of the latest node at or before t, the first node's when every
\* node is later than t
LatestValue(g, t) ==
  IF \A i \in 1..Len(g) : g[i].t > t THEN g[1].v
  ELSE LET i == CHOOSE j \in 1..Len(g) :
                  (g[j].t <= t) /\ (\A k \in 1..Len(g) :
                                      (g[k].t <= t) => (g[k].t <= g[j].t))
       IN  g[i].v

\* C25: for every graph object and every time t, graph_query gives the value
\* of the latest node at or before t, or the value of the first node when
\* all nodes are later; at the time of a node it gives that node's value.
C25_QueryLatestNode ==
  \A k \in 1..Len(graph_chain) :
    /\ \A t \in QueryTimes :
         graph_query(graph_chain[k], t) = LatestValue(graph_chain[k], t)
    /\ \A i \in 1..Len(graph_chain[k]) :
         graph_query(graph_chain[k], graph_chain[k][i].t) = graph_chain[k][i].v

\* a graph of four nodes or more, the first of them after the earliest time
\* queried, the last before the latest
C25_Witness ==
  \E k \in 1..Len(graph_chain) :
    /\ Len(graph_chain[k]) >= 4
    /\ \E t \in QueryTimes : t < graph_chain[k][1].t
    /\ \E t \in QueryTimes : t > graph_chain[k][Len(graph_chain[k])].t
    /\ \E t \in QueryTimes : \A i \in 1..Len(graph_chain[k]) :
                               graph_chain[k][i].t # t

\* what graph_end would make of the open definition: the error of resolve or
\* the table of nodes
EndTable ==
  LET A == resolve(GAcc(graph_acc, graph_acc_t, <<>>, "none"), graph_buf, 0, 0)
  IN  IF A.err # "none" THEN <<A.err>>
      ELSE IF Len(A.acc) < 1 THEN <<"Empty">>
      ELSE A.acc

\* C26: graph_constant(v) returns the graph object that the earlier calls for
\* the same v returned: the object cached for v stays cached, graph objects
\* stay what they are, and a call for a cached v returns the cached object;
\* a call made while a definition is open leaves unchanged what graph_end
\* makes of that definition: the load flag, the register, the buffered
\* region and the source graph of a derived region are as before, and
\* resolving the buffered constant or ramp gives the same table as before.
C26_ConstantInterning ==
  /\ [][graph_err' = "none" =>
          /\ SubSeq(graph_chain', 1, Len(graph_chain)) = graph_chain
          /\ \A i \in 1..Len(graph_cache) :
               \E j \in 1..Len(graph_cache') : graph_cache'[j] = graph_cache[i]]_vars
  /\ [][\A v \in DefConstants :
          (graph_constant(v) /\ graph_err' = "none") =>
            /\ graph_chain'[graph_ret'] = <<NODE(0, v)>>
            /\ \E j \in 1..Len(graph_cache') :
                 graph_cache'[j] = [v |-> v, pg |-> graph_ret']
            /\ \A i \in 1..Len(graph_cache) :
                 (graph_cache[i].v = v) => (graph_ret' = graph_cache[i].pg)
            /\ (graph_load # 0) =>
                 /\ UNCHANGED <<graph_load, graph_acc, graph_acc_t, graph_buf>>
                 /\ (graph_buf.state = STATE_DERIVE) =>
                      (graph_chain'[graph_buf.pg] = graph_chain[graph_buf.pg])
                 /\ (graph_buf.state # STATE_DERIVE) =>
                      (EndTable' = EndTable)]_vars
  /\ [](\A i, j \in 1..Len(graph_cache) :
          (graph_cache[i].v = graph_cache[j].v) => (i = j))

\* while a definition is open, graph_constant has returned a graph object
\* older than another constant graph
C26_Witness ==
  /\ graph_err = "none"
  /\ graph_load # 0
  /\ graph_buf.state # STATE_EMPTY
  /\ graph_ret # 0
  /\ graph_ret < Len(graph_chain)
  /\ Len(graph_cache) >= 2

\* ---- pointers ----

\* C27: for every signed 32-bit moment offset m, pointer_unpack gives the
\* subquantum floor(m / 3) and a part among 0, 1, 2, and pointer_pack of the
\* two gives m back without raising an overflow.
C27_MomentRoundTrip ==
  /\ (codec.pc # "start") =>
       /\ codec.s = codec.m \div 3
       /\ codec.p = codec.m % 3
       /\ codec.p \in {0, 1, 2}
       /\ ~pointer_pack_overflows(codec.s, codec.p)
  /\ codec.pc # "overflow"
  /\ (codec.pc = "packed") => (codec.r = codec.m)

\* a negative moment offset that is no multiple of three, and the least
\* moment offset there is, have gone through both conversions
C27_Witness ==
  /\ codec.pc = "packed"
  /\ \/ codec.m = INT32_MIN
     \/ (codec.m < 0) /\ (codec.m % 3 # 0) /\ (codec.s < 0)

\* the call fails with a pointer error, and no call of it succeeds
PointerCallFails(call) ==
  /\ ENABLED (call /\ pointer_err' # "none")
  /\ ~ENABLED (call /\ pointer_err' = "none")

PointerCallAccepted(call) ==
  /\ ENABLED (call /\ pointer_err' = "none")
  /\ ~ENABLED (call /\ pointer_err' # "none")

\* C28: pointer_jump to a section >= 0 makes a header pointer a body pointer
\* with offset 0, grace 0, tilt 0 and the middle moment part; on a body
\* pointer it sets offset, grace and tilt to 0 and keeps the moment part.
C28_Jump ==
  /\ [][\A sect \in PtrSects :
          (pointer_jump(sect) /\ pointer_err' = "none") =>
            /\ sect >= 0
            /\ ptr'.head = 0
            /\ ptr'.sect = sect
            /\ ptr'.offs = 0
            /\ ptr'.g = 0
            /\ ptr'.gr = NoRuler
            /\ ptr'.tilt = 0
            /\ ptr'.m = (IF ptr.head # 0 THEN 0 ELSE ptr.m)]_vars
  /\ [](pointer_err = "none" =>
          /\ PointerCallAccepted(pointer_jump(0))
          /\ PointerCallAccepted(pointer_jump(3))
          /\ PointerCallFails(pointer_jump(-1)))

\* pointer_jump has moved a body pointer that was at the end of the moment
C28_Witness ==
  /\ pointer_err = "none"
  /\ ptr_res.fn = "jump"
  /\ ptr.head = 0
  /\ ptr.sect = 2
  /\ ptr.m = 1

HeaderRefused == {"seek", "advance", "grace", "tilt", "moment", "compute"}

\* C29: pointer_seek, pointer_advance, pointer_grace, pointer_tilt,
\* pointer_moment and pointer_compute fail on a header pointer, whatever
\* their arguments; pointer_reset, pointer_jump and pointer_isHeader are
\* accepted on it; a pointer stops being a header pointer only in
\* pointer_jump and becomes one again only in pointer_reset.
C29_HeaderPointer ==
  /\ [][(ptr.head # 0 /\ ptr_res'.fn \in HeaderRefused) =>
          (pointer_err' # "none" /\ ptr' = ptr)]_vars
  /\ []((pointer_err = "none" /\ ptr.head # 0) =>
          /\ PointerCallFails(pointer_seek(0))
          /\ PointerCallFails(pointer_advance(5))
          /\ PointerCallFails(pointer_grace(0, NoRuler))
          /\ PointerCallFails(pointer_grace(-1, [slot |-> 48, gap |-> 0]))
          /\ PointerCallFails(pointer_tilt(0))
          /\ PointerCallFails(pointer_moment(0))
          /\ PointerCallFails(pointer_compute)
          /\ PointerCallAccepted(pointer_reset)
          /\ PointerCallAccepted(pointer_jump(0))
          /\ PointerCallAccepted(pointer_isHeader))
  /\ [][(ptr.head # 0 /\ ptr'.head = 0) => ptr_res'.fn = "jump"]_vars
  /\ [][(ptr.head = 0 /\ ptr'.head # 0) => ptr_res'.fn = "reset"]_vars

\* pointer_advance has failed on a pointer that pointer_reset made a header
\* pointer again
C29_Witness ==
  /\ pointer_err = "Header"
  /\ ptr_res.fn = "advance"
  /\ ptr.head # 0

\* Whole numbers beyond 32 bits, as <<high, low>> with value high * 65536 +
\* low and 0 <= low < 65536
Wide(x) == <<x \div 65536, x % 65536>>

WideNorm(h, l) == <<h + (l \div 65536), l % 65536>>

WideAdd(a, b) == WideNorm(a[1] + b[1], a[2] + b[2])

\* a * k for a whole number k of small magnitude
WideScale(a, k) == WideNorm(a[1] * k, a[2] * k)

WideIn32(a) == (a[1] >= -32768) /\ (a[1] <= 32767)

\* the steps of the resolution of the body pointer pp, in whole numbers
ExactSteps(pp) ==
  LET s1 == WideAdd(Wide(nmf_offset(pp.sect)), Wide(pp.offs))
      s2 == WideScale(s1, 8)
      gs == IF pp.g < 0 THEN WideScale(Wide(pp.gr.slot), pp.g) ELSE Wide(0)
      s3 == WideAdd(s2, gs)
      s4 == WideAdd(s3, Wide(pp.tilt))
      s5 == WideScale(s4, 3)
      s6 == WideAdd(s5, Wide(pp.m + 1))
  IN  <<s1, s2, gs, s3, s4, s5, s6>>

ExactOverflow(pp) == \E i \in 1..7 : ~WideIn32(ExactSteps(pp)[i])

\* C30: pointer_compute on a body pointer returns exactly
\* ((nmf_offset(sect) + offs) * 8 + g * slot + tilt) * 3 + (m + 1), with the
\* term g * slot only when g < 0, and only when sect is a section of the NMF
\* data and no step of the computation leaves the range of int32_t; it
\* fails with the section error exactly when sect is no section, and with an
\* overflow error only when a step leaves the range.
C30_Resolution ==
  /\ (pointer_err = "none" /\ ptr_res.fn = "compute") =>
       /\ ptr.head = 0
       /\ ptr.sect < nmf_sections
       /\ ~ExactOverflow(ptr)
       /\ Wide(ptr_res.val) = ExactSteps(ptr)[7]
  /\ (ptr_res.fn = "compute" /\ pointer_err = "SectionRange") =>
       (ptr.head = 0 /\ ptr.sect >= nmf_sections)
  /\ (ptr_res.fn = "compute" /\ pointer_err \in {"Overflow", "RulerOverflow"}) =>
       (ptr.head = 0 /\ ptr.sect < nmf_sections /\ ExactOverflow(ptr))
  /\ (ptr_res.fn = "compute") =>
       (pointer_err \in {"none", "Header", "SectionRange", "Overflow",
                         "RulerOverflow"})

\* a pointer with offset, grace offset, tilt and the end of the moment has
\* been resolved
C30_Witness ==
  /\ pointer_err = "none"
  /\ ptr_res.fn = "compute"
  /\ ptr.sect = 1
  /\ ptr.offs = 6
  /\ ptr.g = -2
  /\ ptr.gr.slot = 48
  /\ ptr.tilt = -4
  /\ ptr.m = 1
  /\ ptr_res.val = (((96 + 6) * 8 - 96 - 4) * 3) + 2

\* pointer_compute on the pointer pp moved to offset b
ResolvedAt(pp, b) == compute_value([pp EXCEPT !.offs = b])

\* pointer_compute on the pointer pp with tilt d
ResolvedTilted(pp, d) == compute_value([pp EXCEPT !.tilt = d])

\* C31: with the section, the tilt and the moment part the same and no grace
\* offset, the moment resolved at offset a is less than the moment resolved
\* at offset b exactly when a < b, for offsets at which pointer_compute
\* succeeds; a greater tilt gives a greater moment, or pointer_compute fails
\* with the overflow error.
C31_ResolutionMonotone ==
  /\ [](( /\ pointer_err = "none"
          /\ ptr_res.fn = "compute"
          /\ ptr.g = 0) =>
         \A b \in PtrOffs :
           (ResolvedAt(ptr, b).err = "none") =>
             ((ptr_res.val < ResolvedAt(ptr, b).val) <=> (ptr.offs < b)))
  /\ [][\A d \in PtrTilts :
          ( /\ pointer_tilt(d)
            /\ pointer_err' = "none"
            /\ d > ptr.tilt
            /\ compute_value(ptr).err = "none" ) =>
            \/ /\ compute_value(ptr').err = "none"
               /\ compute_value(ptr').val > compute_value(ptr).val
            \/ compute_value(ptr').err = "Overflow"]_vars

\* a pointer without grace offset has been resolved, a greater offset gives
\* a greater moment, and of two greater tilts one resolves and one overflows
C31_Witness ==
  /\ pointer_err = "none"
  /\ ptr_res.fn = "compute"
  /\ ptr.g = 0
  /\ ptr.offs < 0
  /\ \E b \in PtrOffs :
       b > ptr.offs /\ ResolvedAt(ptr, b).err = "none"
         /\ ResolvedAt(ptr, b).val > ptr_res.val
  /\ \E d \in PtrTilts : d > ptr.tilt /\ ResolvedTilted(ptr, d).err = "none"
  /\ \E d \in PtrTilts : d > ptr.tilt /\ ResolvedTilted(ptr, d).err = "Overflow"

ShutdownModules == {"core", "art", "pointer"}

\* C34: a call of a module's shutdown function that finds the module
\* already shut down changes no state of any module and raises no error
\* (the first call of core_shutdown returns only from an empty stack with no
\* group open).
C34_ShutdownIdempotent ==
  /\ [][\A md \in ShutdownModules :
          ( /\ shutdown_calls'[md] # shutdown_calls[md]
            /\ m_shutdown[md] # 0 ) =>
            UNCHANGED <<coreVars, artVars, pointerVars, m_shutdown>>]_vars
  /\ []((m_shutdown.core # 0 /\ core_err = "none") =>
          (m_st = <<>> /\ m_gs = <<>>))

\* every shutdown function has been called a second time: the interpreter
\* had a name defined when it was shut down, no module has raised an error
C34_Witness ==
  /\ \A md \in ShutdownModules :
       shutdown_calls[md] >= 2 /\ m_shutdown[md] = 1
  /\ core_err = "none"
  /\ art_err = "none"
  /\ pointer_err = "none"
  /\ ptr.head = 0

\* C35: once pointer_shutdown has been called, every call of another
\* function of pointer.h raises the error of a module that is shut down.
C35_ShutdownRefusesCalls ==
  [][( /\ m_shutdown.pointer # 0
       /\ shutdown_calls' = shutdown_calls ) =>
       pointer_err' = "Shutdown"]_vars

\* C40: in every state the interpreter reaches, the snapshots on the
\* grouping stack do not decrease from bottom to top, and the topmost
\* snapshot is at most the length of the interpreter stack.
C40_SnapshotsOrdered ==
  /\ \A i \in 1..(Len(m_gs) - 1) : m_gs[i] <= m_gs[i + 1]
  /\ TopSnapshot <= Len(m_st)

\* two groups are open with different snapshots, a value has been popped
\* into a name, and the stack is down at the topmost snapshot
C40_Witness ==
  /\ core_err = "none"
  /\ Len(m_gs) = 2
  /\ 1 <= m_gs[1]
  /\ m_gs[1] < m_gs[2]
  /\ Len(m_st) = m_gs[2]
  /\ m_bank["x"] # NoCell

\* C39: keyboard, entered with any event buffer, reaches the end of its
\* outer loop.
C39_KeyboardTerminates == (kb.pc = "outer") ~> (kb.pc = "done")

\* C37: when a derived region anchored at t has been resolved against a
\* following region anchored at t_next, every node it entered has a time
\* from t up to but not including t_next, and the accumulator accepts a node
\* at t_next.
C37_DerivedWithinRegion ==
  ( /\ ResBuf.state = STATE_DERIVE
    /\ graph_res.has_next = 1
    /\ graph_res.err = "none" ) =>
    /\ \A k \in 1..Len(graph_res.emit) :
         /\ ResBuf.t <= graph_res.emit[k].t
         /\ graph_res.emit[k].t < graph_res.t_next
    /\ graph_acc_t < graph_res.t_next

\* the records of the controller map and the controller of a record
MapRecords == {m_map[i] : i \in 1..Len(m_map)}

MapKey(r) == <<r.ctype, r.ch, r.idx>>

\* C32: after any sequence of control_auto calls the map holds at most one
\* record per (type, channel, index), the record of a controller holds the
\* graph registered last for it, and a call changes the record of at most
\* one controller and removes none.
C32_MapHoldsLastGraph ==
  /\ [](/\ \A i, j \in 1..Len(m_map) :
             (i # j) => (MapKey(m_map[i]) # MapKey(m_map[j]))
        /\ MapRecords = map_hist.regs)
  /\ [][/\ Cardinality(MapRecords \ MapRecords') <= 1
        /\ \A r \in MapRecords \ MapRecords' :
             \E q \in MapRecords' : MapKey(q) = MapKey(r)]_vars

\* a full map whose first record is the tempo controller, reached after a
\* call that named a controller already registered
C32_Witness ==
  /\ control_err = "none"
  /\ map_hist.over = 1
  /\ Len(m_map) = MaxMapLen
  /\ m_map[1] = CTL_MAP(CONTROL_TYPE_TEMPO, 0, 0, GraphB)
  /\ \E i \in 2..Len(m_map) : m_map[i].pg = GraphA

\* the moment buffer in the order midi_compile writes it
SortedMoments == IF Len(m_moment) > 1 THEN qsort(m_moment) ELSE m_moment

\* control_track has run and nothing has raised an error
Tracked ==
  /\ track_hist.calls > 0
  /\ control_err = "none"
  /\ midi_err = "none"
  /\ m_compiled = 0

\* what a receiver knows of controller pe: the parameter selected on its
\* channel (kind 1 non-registered, 2 registered), the data bytes a and b
\* and the plain value v it received last for pe
NothingHeard == [kind |-> 0, msb |-> -1, lsb |-> -1, a |-> -1, b |-> -1,
                 v |-> -1]

Receive(pe, rs, sel) ==
  LET d == sel.data
      cc == sel.status = (MIDI_MSG_CONTROL * 16) + (pe.ch - 1)
      mine == (rs.kind = (IF pe.ctype = CONTROL_TYPE_NONREG THEN 1 ELSE 2))
                /\ ((rs.msb * 128) + rs.lsb = pe.idx)
  IN  IF pe.ctype = CONTROL_TYPE_TEMPO
        THEN IF (sel.status = 255) /\ (d[1] = 81)
               THEN [rs EXCEPT !.v = (d[3] * 65536) + (d[4] * 256) + d[5]]
               ELSE rs
      ELSE IF pe.ctype = CONTROL_TYPE_PRESSURE
        THEN IF sel.status = (MIDI_MSG_CH_AFTERTOUCH * 16) + (pe.ch - 1)
               THEN [rs EXCEPT !.v = d[1]] ELSE rs
      ELSE IF pe.ctype = CONTROL_TYPE_PITCH
        THEN IF sel.status = (MIDI_MSG_PITCH_BEND * 16) + (pe.ch - 1)
               THEN [rs EXCEPT !.v = d[1] + (128 * d[2])] ELSE rs
      ELSE IF ~cc THEN rs
      ELSE IF pe.ctype = CONTROL_TYPE_7BIT
        THEN IF d[1] = pe.idx THEN [rs EXCEPT !.v = d[2]] ELSE rs
      ELSE IF pe.ctype = CONTROL_TYPE_14BIT
        THEN IF d[1] = pe.idx THEN [rs EXCEPT !.a = d[2]]
             ELSE IF d[1] = pe.idx + 32 THEN [rs EXCEPT !.b = d[2]]
             ELSE rs
      ELSE IF d[1] = 98 THEN [rs EXCEPT !.kind = 1, !.lsb = d[2]]
      ELSE IF d[1] = 99 THEN [rs EXCEPT !.kind = 1, !.msb = d[2]]
      ELSE IF d[1] = 100 THEN [rs EXCEPT !.kind = 2, !.lsb = d[2]]
      ELSE IF d[1] = 101 THEN [rs EXCEPT !.kind = 2, !.msb = d[2]]
      ELSE IF (d[1] = 6) /\ mine THEN [rs EXCEPT !.a = d[2]]
      ELSE IF (d[1] = 38) /\ mine THEN [rs EXCEPT !.b = d[2]]
      ELSE rs

RECURSIVE HeardFrom(_, _, _, _, _)
HeardFrom(track, pe, t, k, rs) ==
  IF (k > Len(track)) \/ (track[k].t > t) THEN rs
  ELSE HeardFrom(track, pe, t, k + 1, Receive(pe, rs, track[k].sel))

\* the value controller pe has at the end of moment offset t
Heard(track, pe, t) ==
  LET rs == HeardFrom(track, pe, t, 1, NothingHeard)
  IN  IF pe.ctype \in {CONTROL_TYPE_14BIT, CONTROL_TYPE_NONREG,
                       CONTROL_TYPE_REG}
        THEN (rs.a * 128) + rs.b
        ELSE rs.v

\* C33: once control_track has returned, at every moment offset from
\* pack(lower, 0) to pack(upper, 2) of the event range it was called with,
\* the messages written up to the end of that moment leave every mapped
\* controller at the value its graph has at that moment.
C33_TrackFollowsGraph ==
  Tracked =>
    \A track \in {SortedMoments} :
      \A i \in 1..Len(m_map) :
        \A t \in pointer_pack(track_hist.lower, 0)
                   ..pointer_pack(track_hist.upper, 2) :
          Heard(track, m_map[i], t) = graph_query(m_map[i].pg, t)

\* three controllers tracked over moments 0 to 2, among them a
\* non-registered parameter whose graph changes at the very end of the range
C33_Witness ==
  /\ Tracked
  /\ Len(m_map) = 3
  /\ track_hist.lower = 0
  /\ track_hist.upper = 2
  /\ \E i \in 1..Len(m_map) :
       (m_map[i].ctype = CONTROL_TYPE_NONREG) /\ (m_map[i].pg = GraphA)
  /\ \E i \in 1..Len(m_map) :
       (m_map[i].ctype = CONTROL_TYPE_7BIT) /\ (m_map[i].pg = GraphB)
  /\ \E k \in 1..Len(m_moment) :
       (m_moment[k].t = pointer_pack(2, 2)) /\ (m_moment[k].sel.data[1] = 38)

\* the control-change messages of channel ch in the sorted moment buffer
ChannelControls(ch) ==
  LET IsCC(m) == m.sel.status = (MIDI_MSG_CONTROL * 16) + (ch - 1)
  IN  SelectSeq(SortedMoments, IsCC)

\* the four messages of one parameter update stand at S[k] to S[k + 3]
ParamGroupAt(S, k, first, t, idx, v) ==
  /\ k + 3 <= Len(S)
  /\ \A n \in 0..3 : S[k + n].t = t
  /\ S[k].sel.data = <<first, idx % 128>>
  /\ S[k + 1].sel.data = <<first + 1, (idx \div 128) % 128>>
  /\ S[k + 2].sel.data = <<6, (v \div 128) % 128>>
  /\ S[k + 3].sel.data = <<38, v % 128>>

\* C36: once control_track has returned, every change graph_track reported
\* for a non-registered or registered parameter stands in the order of the
\* compiled track as 0x62 (0x64) index LSB, 0x63 (0x65) index MSB, 0x06 data
\* MSB, 0x26 data LSB with no other control change of the channel between
\* them, and every message 0x62 or 0x64 of the channel starts such a group.
C36_ParamGroupsContiguous ==
  Tracked =>
    \A i \in 1..Len(m_map) :
      (m_map[i].ctype \in {CONTROL_TYPE_NONREG, CONTROL_TYPE_REG}) =>
        LET pe == m_map[i]
            first == IF pe.ctype = CONTROL_TYPE_NONREG THEN 98 ELSE 100
            calls == graph_track(pe.pg, pointer_pack(track_hist.lower, 0),
                                 pointer_pack(track_hist.upper, 2), 0, 1, 0)
        IN  \A S \in {ChannelControls(pe.ch)} :
            /\ \A c \in 1..Len(calls) :
                 \E k \in 1..Len(S) :
                   ParamGroupAt(S, k, first, calls[c].t, pe.idx, calls[c].v)
            /\ \A k \in 1..Len(S) :
                 (S[k].sel.data[1] \in {98, 100}) =>
                   /\ k + 3 <= Len(S)
                   /\ S[k + 1].sel.data[1] = S[k].sel.data[1] + 1
                   /\ S[k + 2].sel.data[1] = 6
                   /\ S[k + 3].sel.data[1] = 38

\* a non-registered parameter, a registered parameter and the 14-bit
\* controller of channel 1 all change at moment offset 4
C36_Witness ==
  /\ Tracked
  /\ Len(m_map) = 3
  /\ track_hist.lower <= 1
  /\ track_hist.upper >= 1
  /\ {m_map[i].ctype : i \in 1..Len(m_map)}
       = {CONTROL_TYPE_14BIT, CONTROL_TYPE_NONREG, CONTROL_TYPE_REG}
  /\ \A f \in {5, 98, 100} :
       \E k \in 1..Len(m_moment) :
         (m_moment[k].t = 4) /\ (m_moment[k].sel.data[1] = f)

\* C38: a call of control_track leaves m_lower and m_upper as they are,
\* every event it adds lies in a subquantum from m_lower to m_upper as they
\* were when it was called, and the moment midi_compile gives the
\* End-Of-Track event is the same before and after the call.
C38_TrackKeepsRange ==
  [][(track_hist'.calls # track_hist.calls) =>
       /\ m_lower' = m_lower
       /\ m_upper' = m_upper
       /\ eot_moment(m_upper') = eot_moment(m_upper)
       /\ \A k \in (Len(m_moment) + 1)..Len(m_moment') :
            /\ pointer_unpack(m_moment'[k].t) >= m_lower
            /\ pointer_unpack(m_moment'[k].t) <= m_upper]_vars

\* control_track called with the event range 0 to 2 has added events at
\* the first and at the last moment offset of the range
C38_Witness ==
  /\ Tracked
  /\ track_hist.filled = 1
  /\ track_hist.lower = 0
  /\ track_hist.upper = 2
  /\ m_lower = 0
  /\ m_upper = 2
  /\ \E k \in 1..Len(m_moment) :
       (m_moment[k].eid > track_hist.unique)
         /\ (m_moment[k].t = pointer_pack(0, 0))
  /\ \E k \in 1..Len(m_moment) :
       (m_moment[k].eid > track_hist.unique)
         /\ (m_moment[k].t = pointer_pack(2, 2))

====
